---- MODULE Spec2Model ----
(***************************************************************************)
(* Model of the orbital propagation kernel of                             *)
(* Assets/Plugins/Source/Dopri54Physics.cpp: the Dormand-Prince            *)
(* integrator, gravity, atmospheric density and drag.                      *)
(*                                                                         *)
(* Numbers.  A C++ double (or float) is modelled by the real number it     *)
(* stands for, or by one of the IEEE-754 specials NaN, +Inf, -Inf.  A      *)
(* finite real is kept exactly, as the triple <<n, d, e>> that stands for  *)
(* (n / d) * 10^e, in the canonical form computed by Norm, so that two     *)
(* doubles are equal exactly when their triples are.  The specials are     *)
(* the triples with d = 0.  Arithmetic is exact: rounding, the sign of     *)
(* zero and overflow to infinity are not modelled.  std::sqrt is exact on  *)
(* the squares of rationals, and the inputs of the model are chosen so     *)
(* that every square root taken is of such a square.                       *)
(*                                                                         *)
(* Control.  A call of the integrator is a sequence of steps of the        *)
(* calling thread (entry, guard, the seven stages, the final loop, the     *)
(* write-back), each an action; the other functions are evaluated in one   *)
(* step.  Spec is the integrator called by the host, SpecFn the density,   *)
(* drag and gravity functions called one at a time, SpecConcurrent two     *)
(* threads stepping their own bodies, SpecLoaded the static initialisation *)
(* followed by calls of every kind, SpecBoundary the copy loop of          *)
(* DormandPrinceSingle for body lists up to and beyond its buffers, and    *)
(* SpecRK4 the float RK4 variant of Assets/Plugins/Source/rk4Physics.cpp.  *)
(***************************************************************************)
EXTENDS Integers, Sequences, FiniteSets, TLC

(***************************************************************************)
(* Integer helpers.                                                        *)
(***************************************************************************)
Abs(n) == IF n < 0 THEN -n ELSE n

Sgn(n) == IF n < 0 THEN -1 ELSE IF n > 0 THEN 1 ELSE 0

RECURSIVE Gcd(_, _)
Gcd(a, b) == IF b = 0 THEN a ELSE Gcd(b, a % b)

RECURSIVE Pow10(_)
Pow10(k) == IF k = 0 THEN 1 ELSE 10 * Pow10(k - 1)

RECURSIVE Digits(_)
Digits(n) == IF n < 10 THEN 1 ELSE 1 + Digits(n \div 10)

\* Largest r with r * r <= n, searched between lo and hi (lo * lo <= n < hi * hi).
RECURSIVE ISqrtIn(_, _, _)
ISqrtIn(n, lo, hi) ==
    IF hi - lo <= 1 THEN lo
    ELSE LET mid == (lo + hi) \div 2
         IN  IF mid * mid <= n THEN ISqrtIn(n, mid, hi) ELSE ISqrtIn(n, lo, mid)

ISqrt(n) == ISqrtIn(n, 0, 46341)

IsSquare(n) == ISqrt(n) * ISqrt(n) = n

(***************************************************************************)
(* The doubles.                                                            *)
(***************************************************************************)
NaN  == <<0, 0, 0>>
PInf == <<1, 0, 0>>
NInf == <<-1, 0, 0>>
Zero == <<0, 1, 0>>
One  == <<1, 1, 0>>

IsNaN(a)    == a[2] = 0 /\ a[1] = 0
IsInf(a)    == a[2] = 0 /\ a[1] # 0
IsFinite(a) == a[2] # 0
Sign(a)     == Sgn(a[1])

\* Moves powers of ten between the fraction and the exponent until the form is
\* canonical: n and d coprime, neither a multiple of ten, d coprime to ten when
\* e > 0 and n coprime to ten when e < 0.
RECURSIVE NormE(_, _, _)
NormE(n, d, e) ==
    IF n % 10 = 0 THEN NormE(n \div 10, d, e + 1)
    ELSE IF d % 10 = 0 THEN NormE(n, d \div 10, e - 1)
    ELSE IF e > 0 /\ d % 2 = 0 THEN NormE(n * 5, d \div 2, e - 1)
    ELSE IF e > 0 /\ d % 5 = 0 THEN NormE(n * 2, d \div 5, e - 1)
    ELSE IF e < 0 /\ n % 2 = 0 THEN NormE(n \div 2, d * 5, e + 1)
    ELSE IF e < 0 /\ n % 5 = 0 THEN NormE(n \div 5, d * 2, e + 1)
    ELSE <<n, d, e>>

\* The double (n / d) * 10^e, d # 0.
Norm(n, d, e) ==
    IF n = 0 THEN Zero
    ELSE LET g == Gcd(Abs(n), Abs(d))
             s == Sgn(d)
         IN  NormE(s * (n \div g), s * (d \div g), e)

Num(n)    == Norm(n, 1, 0)
Rat(n, d) == Norm(n, d, 0)
Dec(n, e) == Norm(n, 1, e)

Neg(a) == <<-a[1], a[2], a[3]>>

\* x * y * 10^e with the tens of the product x * y moved into the exponent.
RECURSIVE Tens(_, _, _)
Tens(x, y, e) ==
    IF x % 2 = 0 /\ y % 5 = 0 THEN Tens(x \div 2, y \div 5, e + 1)
    ELSE IF x % 5 = 0 /\ y % 2 = 0 THEN Tens(x \div 5, y \div 2, e + 1)
    ELSE <<x, y, e>>

Mul(a, b) ==
    IF IsNaN(a) \/ IsNaN(b) THEN NaN
    ELSE IF IsInf(a) \/ IsInf(b)
         THEN (IF Sign(a) * Sign(b) = 0 THEN NaN
               ELSE IF Sign(a) * Sign(b) > 0 THEN PInf ELSE NInf)
    ELSE IF a[1] = 0 \/ b[1] = 0 THEN Zero
    ELSE LET g1 == Gcd(Abs(a[1]), b[2])
             g2 == Gcd(Abs(b[1]), a[2])
             p  == Tens(a[1] \div g1, b[1] \div g2, a[3] + b[3])
         IN  Norm(p[1] * p[2], (a[2] \div g2) * (b[2] \div g1), p[3])

Div(a, b) ==
    IF IsNaN(a) \/ IsNaN(b) THEN NaN
    ELSE IF IsInf(b) THEN (IF IsInf(a) THEN NaN ELSE Zero)
    ELSE IF b[1] = 0
         THEN (IF Sign(a) = 0 THEN NaN ELSE IF Sign(a) > 0 THEN PInf ELSE NInf)
    ELSE Mul(a, <<Sgn(b[1]) * b[2], Abs(b[1]), -b[3]>>)

Add(a, b) ==
    IF IsNaN(a) \/ IsNaN(b) THEN NaN
    ELSE IF IsInf(a) THEN (IF IsInf(b) /\ Sign(a) # Sign(b) THEN NaN ELSE a)
    ELSE IF IsInf(b) THEN b
    ELSE IF a[1] = 0 THEN b
    ELSE IF b[1] = 0 THEN a
    ELSE LET e  == IF a[3] < b[3] THEN a[3] ELSE b[3]
             g  == Gcd(a[2], b[2])
             na == a[1] * Pow10(a[3] - e) * (b[2] \div g)
             nb == b[1] * Pow10(b[3] - e) * (a[2] \div g)
         IN  Norm(na + nb, (a[2] \div g) * b[2], e)

Sub(a, b) == Add(a, Neg(b))

\* The decimal order of a positive finite double: a lies strictly between
\* 10^(Order(a) - 1) and 10^(Order(a) + 1).
Order(a) == a[3] + Digits(Abs(a[1])) - Digits(a[2])

\* a < b for positive finite doubles, decided by the orders when they are far
\* apart and by cross-multiplication otherwise.
LessPos(a, b) ==
    IF Order(a) + 2 <= Order(b) THEN TRUE
    ELSE IF Order(b) + 2 <= Order(a) THEN FALSE
    ELSE LET e == IF a[3] < b[3] THEN a[3] ELSE b[3]
         IN  a[1] * Pow10(a[3] - e) * b[2] < b[1] * Pow10(b[3] - e) * a[2]

\* The comparison a < b of two doubles (false when either is NaN).
Less(a, b) ==
    IF IsNaN(a) \/ IsNaN(b) THEN FALSE
    ELSE IF IsInf(a) THEN Sign(a) < 0 /\ b # NInf
    ELSE IF IsInf(b) THEN Sign(b) > 0
    ELSE IF Sign(a) # Sign(b) THEN Sign(a) < Sign(b)
    ELSE IF Sign(a) = 0 THEN FALSE
    ELSE IF Sign(a) > 0 THEN LessPos(a, b)
    ELSE LessPos(Neg(b), Neg(a))

\* a <= b and a >= b of two doubles (false when either is NaN).
LessEq(a, b)    == ~IsNaN(a) /\ ~IsNaN(b) /\ ~Less(b, a)
GreaterEq(a, b) == LessEq(b, a)

\* std::min(a, b) and std::max(a, b) as <algorithm> defines them.
StdMin(a, b) == IF Less(b, a) THEN b ELSE a
StdMax(a, b) == IF Less(a, b) THEN b ELSE a

\* std::sqrt: exact on the square of a rational; the model takes no other
\* square root of a positive finite double.
Sqrt(a) ==
    IF IsNaN(a) \/ Sign(a) < 0 THEN NaN
    ELSE IF IsInf(a) \/ a[1] = 0 THEN a
    ELSE LET n == IF a[3] % 2 = 1 /\ a[3] > 0 THEN a[1] * 10 ELSE a[1]
             d == IF a[3] % 2 = 1 /\ a[3] < 0 THEN a[2] * 10 ELSE a[2]
             e == IF a[3] % 2 = 0 THEN a[3]
                  ELSE IF a[3] > 0 THEN a[3] - 1 ELSE a[3] + 1
         IN  CHOOSE r \in {Norm(ISqrt(n), ISqrt(d), e \div 2)} :
                 IsSquare(n) /\ IsSquare(d)

\* The conversion int(a) of a double 0 <= a: truncation.
TruncInt(a) ==
    IF a[3] >= 0 THEN (a[1] * Pow10(a[3])) \div a[2]
    ELSE a[1] \div (a[2] * Pow10(-a[3]))

(***************************************************************************)
(* Vector3d: a triple of doubles.                                          *)
(***************************************************************************)
Vec(x, y, z) == <<x, y, z>>
VZero        == <<Zero, Zero, Zero>>
VAdd(u, v)   == <<Add(u[1], v[1]), Add(u[2], v[2]), Add(u[3], v[3])>>
VSub(u, v)   == <<Sub(u[1], v[1]), Sub(u[2], v[2]), Sub(u[3], v[3])>>
VScale(k, v) == <<Mul(k, v[1]), Mul(k, v[2]), Mul(k, v[3])>>
Dot(u, v)    == Add(Add(Mul(u[1], v[1]), Mul(u[2], v[2])), Mul(u[3], v[3]))
NormSq(v)    == Dot(v, v)
Cross(u, v)  == <<Sub(Mul(u[2], v[3]), Mul(u[3], v[2])),
                  Sub(Mul(u[3], v[1]), Mul(u[1], v[3])),
                  Sub(Mul(u[1], v[2]), Mul(u[2], v[1]))>>
VFinite(v)   == IsFinite(v[1]) /\ IsFinite(v[2]) /\ IsFinite(v[3])

\* A C array of the entries of a sequence, indexed from 0.
Arr(s) == [i \in 0 .. Len(s) - 1 |-> s[i + 1]]

(***************************************************************************)
(* Constants of Dopri54Physics.cpp.                                        *)
(***************************************************************************)
G         == Dec(66743, -27)
minDistSq == Dec(1, -20)
maxForce  == Dec(1, 8)

UNIT_TO_KM      == Num(10)
EARTH_RADIUS_KM == Mul(Dec(6378, -1), UNIT_TO_KM)
OMEGA_EARTH     == Dec(7292115, -11)
DENSITY_SCALE   == One

JR_N == 51

JR_ALT ==
    Arr(<<Num(0),   Num(10),  Num(20),  Num(30),  Num(40),
          Num(50),  Num(60),  Num(70),  Num(80),  Num(90),
          Num(100), Num(110), Num(120), Num(130), Num(140),
          Num(150), Num(160), Num(170), Num(180), Num(190),
          Num(200), Num(210), Num(220), Num(230), Num(240),
          Num(250), Num(260), Num(270), Num(280), Num(290),
          Num(300), Num(310), Num(320), Num(330), Num(340),
          Num(350), Num(360), Num(370), Num(380), Num(390),
          Num(400), Num(410), Num(420), Num(430), Num(440),
          Num(450), Num(460), Num(470), Num(480), Num(490),
          Num(500)>>)

JR_RHO ==
    Arr(<<Dec(135, 7),  Dec(456, 6),   Dec(982, 5),   Dec(205, 5),  Dec(446, 4),
          Dec(115, 4),  Dec(348, 3),   Dec(911, 2),   Dec(206, 2),  Dec(381, 1),
          Num(725),     Num(267),      Num(107),      Num(51),      Num(24),
          Dec(195, -2), Dec(115, -2),  Dec(68, -2),   Dec(40, -2),  Dec(24, -2),
          Dec(135, -3), Dec(90, -3),   Dec(56, -3),   Dec(35, -3),  Dec(22, -3),
          Dec(187, -3), Dec(1459, -4), Dec(1136, -4), Dec(885, -4), Dec(689, -4),
          Dec(537, -4), Dec(418, -4),  Dec(326, -4),  Dec(254, -4), Dec(198, -4),
          Dec(154, -4), Dec(120, -4),  Dec(938, -5),  Dec(73, -4),  Dec(568, -5),
          Dec(487, -5), Dec(378, -5),  Dec(292, -5),  Dec(232, -5), Dec(197, -5),
          Dec(168, -5), Dec(138, -5),  Dec(106, -5),  Dec(803, -6), Dec(622, -6),
          Dec(485, -6)>>)

(***************************************************************************)
(* Scale heights.  std::log and std::exp have no rational values, so the   *)
(* double h = -dh / std::log(q) is kept as the pair <<dh, q>> that         *)
(* determines it, and std::exp(-dH / h) is then q^(dH / dh).               *)
(***************************************************************************)
NegDivLog(dh, q) == <<dh, q>>

\* std::exp(-dH / h) for h = NegDivLog(dh, q) with dh > 0.  For 0 < q < +Inf,
\* q # 1, it is q^(dH / dh), which the model takes at the exponents 0 and 1.
ExpNegDiv(dH, h) ==
    LET dh == h[1]
        q  == h[2]
        t  == Div(dH, dh)
    IN  IF IsNaN(q) \/ Sign(q) < 0 \/ IsNaN(dH) THEN NaN
        ELSE IF q = Zero \/ q = PInf
             THEN (IF Sign(dH) = 0 THEN NaN
                   ELSE IF (Sign(dH) > 0) = (q = Zero) THEN Zero ELSE PInf)
        ELSE IF q = One THEN One
        ELSE CHOOSE r \in {IF t = Zero THEN One ELSE q} : t = Zero \/ t = One

(***************************************************************************)
(* State.  The host propagates one body per thread of Threads.             *)
(*   JR_H      the static table of per-band scale heights                  *)
(*   position  position[t] is the double3 *position of thread t's body     *)
(*   velocity  velocity[t] is the double3 *velocity of thread t's body     *)
(*   steps     the number of integrator calls the host has made            *)
(*   frame     frame[t] is the activation thread t is in: the function     *)
(*             called (fn), where control is (pc), the arguments (args),   *)
(*             the locals of DormandPrinceStep (pos, vel, th, i, kx, kv),  *)
(*             *position and *velocity at the call (pos0, vel0) and the    *)
(*             value a function returned (ret)                             *)
(***************************************************************************)
VARIABLES JR_H, position, velocity, steps, frame

vars == <<JR_H, position, velocity, steps, frame>>

Threads == {"main", "worker"}

\* struct JRInit's constructor: the scale heights between the 10 km points.
JRInit ==
    [i \in 0 .. JR_N - 2 |->
        LET dh == Sub(JR_ALT[i + 1], JR_ALT[i])
        IN  NegDivLog(dh, Div(JR_RHO[i + 1], JR_RHO[i]))]

IntMin(a, b) == IF b < a THEN b ELSE a

\* PickBand with the quotient rounded to the nearest integer.
PickBandNearest(altKm) ==
    IntMin(TruncInt(Add(Div(altKm, Num(10)), Dec(5, -1))), JR_N - 2)

\* The band ComputeAtmosphericDensity picks for an altitude inside the table.
PickBand(altKm) == IntMin(TruncInt(Div(altKm, Num(10))), JR_N - 2)

\* AboveTable with the comparison made against the last sample but one.
AboveTableEarly(altKm) == GreaterEq(altKm, JR_ALT[JR_N - 2])

\* AboveTable with the comparison made strict.
AboveTableStrict(altKm) == Less(JR_ALT[JR_N - 1], altKm)

\* The two tests of ComputeAtmosphericDensity against the ends of the table.
BelowTable(altKm) == LessEq(altKm, JR_ALT[0])
AboveTable(altKm) == GreaterEq(altKm, JR_ALT[JR_N - 1])

ComputeAtmosphericDensity(altKm) ==
    IF BelowTable(altKm) THEN JR_RHO[0]
    ELSE IF AboveTable(altKm) THEN Zero
    ELSE LET idx == PickBand(altKm)
             dH  == Sub(altKm, JR_ALT[idx])
         IN  Mul(Mul(JR_RHO[idx], ExpNegDiv(dH, JR_H[idx])), DENSITY_SCALE)

\* DragFactor with the sign of the leading coefficient changed.
DragFactorPositive(Cd, A2, rho, mass) ==
    Div(Mul(Mul(Mul(Dec(5, -1), Cd), A2), rho), mass)

\* DragVector without the factor speed.
DragVectorLinear(factor, vrel, speed) ==
    Vec(Mul(factor, vrel[1]), Mul(factor, vrel[2]), Mul(factor, vrel[3]))

\* double factor = -0.5 * Cd * A2 * rho / mass
DragFactor(Cd, A2, rho, mass) == Div(Mul(Mul(Mul(Dec(-5, -1), Cd), A2), rho), mass)

\* Vector3d a = {factor * vrel.x * speed, factor * vrel.y * speed, factor * vrel.z * speed}
DragVector(factor, vrel, speed) ==
    Vec(Mul(Mul(factor, vrel[1]), speed),
        Mul(Mul(factor, vrel[2]), speed),
        Mul(Mul(factor, vrel[3]), speed))

\* The test of the wind speed never met.
NeverTooSlow(speed) == FALSE

\* if (rho < 1e-12) return {0, 0, 0}
TooThin(rho) == Less(rho, Dec(1, -12))

\* if (speed < 1e-6) return {0, 0, 0}
TooSlow(speed) == Less(speed, Dec(1, -6))

\* DragAltitude without the clamp at 0.
DragAltitudeUnclamped(posRelUU) ==
    LET xkm == Mul(posRelUU[1], UNIT_TO_KM)
        ykm == Mul(posRelUU[2], UNIT_TO_KM)
        zkm == Mul(posRelUU[3], UNIT_TO_KM)
        rkm == Sqrt(Add(Add(Mul(xkm, xkm), Mul(ykm, ykm)), Mul(zkm, zkm)))
    IN  Sub(rkm, EARTH_RADIUS_KM)

\* double alt = std::max(0.0, rkm - EARTH_RADIUS_KM)
DragAltitude(posRelUU) ==
    LET xkm == Mul(posRelUU[1], UNIT_TO_KM)
        ykm == Mul(posRelUU[2], UNIT_TO_KM)
        zkm == Mul(posRelUU[3], UNIT_TO_KM)
        rkm == Sqrt(Add(Add(Mul(xkm, xkm), Mul(ykm, ykm)), Mul(zkm, zkm)))
    IN  StdMax(Zero, Sub(rkm, EARTH_RADIUS_KM))

ComputeDragAcceleration(velUU, posRelUU, mass, areaUU, Cd) ==
    LET xkm == Mul(posRelUU[1], UNIT_TO_KM)
        ykm == Mul(posRelUU[2], UNIT_TO_KM)
        alt == DragAltitude(posRelUU)
        rho == ComputeAtmosphericDensity(alt)
    IN  IF TooThin(rho) THEN VZero
        ELSE
        LET vkm   == VScale(UNIT_TO_KM, velUU)
            vatm  == Vec(Mul(Neg(OMEGA_EARTH), ykm), Mul(OMEGA_EARTH, xkm), Zero)
            vrel  == VSub(vkm, vatm)
            speed == Sqrt(NormSq(vrel))
        IN  IF TooSlow(speed) THEN VZero
            ELSE
            LET A2     == Mul(Mul(areaUU, UNIT_TO_KM), UNIT_TO_KM)
                factor == DragFactor(Cd, A2, rho, mass)
                a      == DragVector(factor, vrel, speed)
            IN  Vec(Div(a[1], UNIT_TO_KM), Div(a[2], UNIT_TO_KM), Div(a[3], UNIT_TO_KM))

\* The skip of ComputeAcceleration never taken.
NeverTooClose(r2) == FALSE

\* The cap of ComputeAcceleration at twice maxForce.
CapForceTwice(f) == StdMin(f, Mul(Num(2), maxForce))

\* if (r2 < minDistSq) continue
TooClose(r2) == Less(r2, minDistSq)

\* std::min(f, maxForce)
CapForce(f) == StdMin(f, maxForce)

\* AccelerationFrom with the loop left at the first body that is too close.
RECURSIVE AccelerationFromBreaking(_, _, _, _, _, _)
AccelerationFromBreaking(i, a, pos, masses, bodies, n) ==
    IF i >= n THEN a
    ELSE LET d  == VSub(bodies[i], pos)
             r2 == NormSq(d)
         IN  IF TooClose(r2) THEN a
             ELSE LET F   == CapForce(Div(Mul(G, masses[i]), r2))
                      r   == Sqrt(r2)
                      f_r == Div(F, r)
                  IN  AccelerationFromBreaking(i + 1, VAdd(a, VScale(f_r, d)),
                                               pos, masses, bodies, n)

\* The body of ComputeAcceleration's loop from index i on, a the sum so far.
RECURSIVE AccelerationFrom(_, _, _, _, _, _)
AccelerationFrom(i, a, pos, masses, bodies, n) ==
    IF i >= n THEN a
    ELSE LET d  == VSub(bodies[i], pos)
             r2 == NormSq(d)
         IN  IF TooClose(r2)
             THEN AccelerationFrom(i + 1, a, pos, masses, bodies, n)
             ELSE LET F   == CapForce(Div(Mul(G, masses[i]), r2))
                      r   == Sqrt(r2)
                      f_r == Div(F, r)
                  IN  AccelerationFrom(i + 1, VAdd(a, VScale(f_r, d)),
                                       pos, masses, bodies, n)

ComputeAcceleration(pos, masses, bodies, n) ==
    AccelerationFrom(0, VZero, pos, masses, bodies, n)

(***************************************************************************)
(* The Dormand-Prince tableau.                                             *)
(***************************************************************************)
\* The nodes with the fifth one displaced.
c_dpWithError == Arr(<<Zero, Rat(1, 5), Rat(3, 10), Rat(4, 5), Rat(9, 10), One, One>>)

c_dp == Arr(<<Zero, Rat(1, 5), Rat(3, 10), Rat(4, 5), Rat(8, 9), One, One>>)

a_dp ==
    Arr(<<Arr(<<Zero, Zero, Zero, Zero, Zero, Zero>>),
          Arr(<<Rat(1, 5), Zero, Zero, Zero, Zero, Zero>>),
          Arr(<<Rat(3, 40), Rat(9, 40), Zero, Zero, Zero, Zero>>),
          Arr(<<Rat(44, 45), Rat(-56, 15), Rat(32, 9), Zero, Zero, Zero>>),
          Arr(<<Rat(19372, 6561), Rat(-25360, 2187), Rat(64448, 6561),
                Rat(-212, 729), Zero, Zero>>),
          Arr(<<Rat(9017, 3168), Rat(-355, 33), Rat(46732, 5247),
                Rat(49, 176), Rat(-5103, 18656), Zero>>),
          Arr(<<Rat(35, 384), Zero, Rat(500, 1113), Rat(125, 192),
                Rat(-2187, 6784), Rat(11, 84)>>)>>)

\* b_dp with the weight 1/40 of the embedded 4th-order solution in its last place.
b_dpWithError == Arr(<<Rat(35, 384), Zero, Rat(500, 1113), Rat(125, 192),
                       Rat(-2187, 6784), Rat(11, 84), Rat(1, 40)>>)

b_dp == Arr(<<Rat(35, 384), Zero, Rat(500, 1113), Rat(125, 192),
              Rat(-2187, 6784), Rat(11, 84), Zero>>)

\* StepGuard with the comparison made strict.
StepGuardStrict(mass) == Less(mass, Dec(1, -6))

\* The massless-body guards of DormandPrinceStep (mass <= 1e-6) and of
\* DormandPrinceSingle (mass <= 1e-6f).
StepGuard(mass)   == LessEq(mass, Dec(1, -6))
SingleGuard(mass) == LessEq(mass, Dec(1, -6))

\* One stage's velocity derivative: gravity, thrust and drag at (p, v).
StageAcceleration(p, v, mass, bodies, masses, n, thrustAcc, dragCoeff, areaUU) ==
    LET grav == ComputeAcceleration(p, masses, bodies, n)
        drag == ComputeDragAcceleration(v, VSub(p, bodies[0]), mass, areaUU, dragCoeff)
    IN  VAdd(VAdd(grav, thrustAcc), drag)

\* Advance without the factor dt.
AdvanceWithoutDt(x, dt, b, k) == VAdd(x, VScale(b, k))

\* x.x += dt * b * k.x, and the same for y and z
Advance(x, dt, b, k) == VAdd(x, VScale(Mul(dt, b), k))

\* StageState with the first stage left out of the sums of the stages after
\* the second.
RECURSIVE StageStateWithoutFirst(_, _, _, _, _, _, _)
StageStateWithoutFirst(j, i, pi, vi, kx, kv, dt) ==
    IF j >= i THEN [pi |-> pi, vi |-> vi]
    ELSE IF j = 0 /\ i > 1
         THEN StageStateWithoutFirst(1, i, pi, vi, kx, kv, dt)
    ELSE StageStateWithoutFirst(j + 1, i,
                                Advance(pi, dt, a_dp[i][j], kx[j]),
                                Advance(vi, dt, a_dp[i][j], kv[j]),
                                kx, kv, dt)

\* The inner loop of a stage, from j on: pi, vi accumulated over the stages j < i.
RECURSIVE StageState(_, _, _, _, _, _, _)
StageState(j, i, pi, vi, kx, kv, dt) ==
    IF j >= i THEN [pi |-> pi, vi |-> vi]
    ELSE StageState(j + 1, i,
                    Advance(pi, dt, a_dp[i][j], kx[j]),
                    Advance(vi, dt, a_dp[i][j], kv[j]),
                    kx, kv, dt)

\* The final loop from stage i on: pos and vel advanced by dt * b_dp[i] * k[i].
RECURSIVE Combine(_, _, _, _, _, _)
Combine(i, pos, vel, kx, kv, dt) ==
    IF i >= 7 THEN [pos |-> pos, vel |-> vel]
    ELSE Combine(i + 1,
                 Advance(pos, dt, b_dp[i], kx[i]),
                 Advance(vel, dt, b_dp[i], kv[i]),
                 kx, kv, dt)

\* The conversions at the boundary: each keeps the value it is given.
ToVector3dFromVector3(v) == Vec(v[1], v[2], v[3])
ToVector3dFromDouble3(v) == Vec(v[1], v[2], v[3])
ToDouble3(v)             == Vec(v[1], v[2], v[3])

\* The capacity of the local arrays bodiesD and massesD.
BodiesCapacity == 256

(***************************************************************************)
(* Activations.                                                            *)
(***************************************************************************)
\* The activation of a thread that is in none of the functions.
IdleFrame ==
    [fn |-> "none", pc |-> "idle", args |-> <<>>,
     pos |-> VZero, vel |-> VZero, th |-> VZero, i |-> 0, kx |-> <<>>, kv |-> <<>>,
     pos0 |-> VZero, vel0 |-> VZero, ret |-> <<>>]

\* The local array bodiesD of DormandPrinceSingle after its copy loop: the
\* entries below numBodies are copies, the others hold what the stack held
\* (a.stackBody, an indeterminate value).
bodiesD(a) ==
    [i \in 0 .. BodiesCapacity - 1 |->
        IF i < a.numBodies THEN ToVector3dFromVector3(a.bodies[i]) ELSE a.stackBody]

\* The local array massesD of DormandPrinceSingle after its copy loop.
massesD(a) ==
    [i \in 0 .. BodiesCapacity - 1 |->
        IF i < a.numBodies THEN a.masses[i] ELSE a.stackMass]

\* The arrays DormandPrinceStep's parameters bodies and masses point to.
StepBodies(f) == IF f.fn = "DormandPrinceSingle" THEN bodiesD(f.args) ELSE f.args.bodies
StepMasses(f) == IF f.fn = "DormandPrinceSingle" THEN massesD(f.args) ELSE f.args.masses

\* Where control goes when DormandPrinceStep returns.
StepReturn(f) == IF f.fn = "DormandPrinceSingle" THEN "writeback" ELSE "done"

(***************************************************************************)
(* Inputs.  Motion is along the z axis, with steps and accelerations that  *)
(* keep every stage position a short decimal.                              *)
(***************************************************************************)
\* The number of integrator calls the host makes.
MaxSteps == 1

Z(z) == Vec(Zero, Zero, z)

VNaN == Vec(NaN, NaN, NaN)

\* The centre of the Earth, far enough below the body for it to move in vacuum.
FarEarth == Z(Num(-700))

InitStates ==
    {[pos |-> Z(Num(p)), vel |-> Z(Num(v))] : p \in {0, 90}, v \in {0, 90}}

\* What an element of bodiesD or massesD holds before it is written.
StackBodies == {VZero, VNaN}
StackMasses == {Zero}

\* The body lists of the host: the Earth alone, or the Earth and a second body,
\* both without mass or both far too heavy to be anything but capped.
Worlds ==
    {[bodies |-> Arr(<<FarEarth>>), masses |-> Arr(<<Zero>>), numBodies |-> 1],
     [bodies |-> Arr(<<FarEarth, Z(Num(-1400))>>), masses |-> Arr(<<Zero, Zero>>),
      numBodies |-> 2]}

NoWorld == [bodies |-> <<>>, masses |-> <<>>, numBodies |-> 0]

\* The time steps, each with no thrust and with a thrust.
Burns ==
    {[dt |-> One, th |-> Zero], [dt |-> One, th |-> Num(16200)],
     [dt |-> Num(2), th |-> Zero], [dt |-> Num(2), th |-> Num(4050)]}

SingleArgsOf(mass, w, dt, thrust, area, sb, sm) ==
    [mass |-> mass, bodies |-> w.bodies, masses |-> w.masses,
     numBodies |-> w.numBodies, dt |-> dt, thrustImpulse |-> thrust,
     dragCoeff |-> Num(2), areaUU |-> area, stackBody |-> sb, stackMass |-> sm]

\* The arguments of the host's calls of DormandPrinceSingle: with bodies, with
\* none, and for a body whose mass is at or below the threshold.
SingleArgs ==
    {SingleArgsOf(One, w, b.dt, Z(b.th), ar, sb, sm) :
        w \in Worlds, b \in Burns, ar \in {Zero, One}, sb \in StackBodies,
        sm \in StackMasses}
    \cup
    {SingleArgsOf(One, NoWorld, One, Z(th), Zero, sb, sm) :
        th \in {Zero, Num(16200)}, sb \in StackBodies \cup {FarEarth},
        sm \in StackMasses}
    \cup
    {SingleArgsOf(m, w, One, Z(th), Zero, VNaN, Zero) :
        m \in {Num(-1), Zero, Dec(1, -7), Dec(1, -6)}, w \in Worlds,
        th \in {Zero, Num(16200)}}

\* The arguments of a direct call of DormandPrinceStep.
StepArgs ==
    {[mass |-> m, dt |-> One, bodies |-> Arr(<<FarEarth>>), masses |-> Arr(<<Zero>>),
      n |-> 1, thrustAcc |-> Z(th), dragCoeff |-> Num(2), areaUU |-> Zero] :
        m \in {Zero, Dec(1, -6), One}, th \in {Zero, Num(16200)}}

(***************************************************************************)
(* The integrator, one action per step of control.                         *)
(***************************************************************************)
Init ==
    /\ JR_H = JRInit
    /\ \E s \in InitStates :
          /\ position = [t \in Threads |-> s.pos]
          /\ velocity = [t \in Threads |-> s.vel]
    /\ steps = 0
    /\ frame = [t \in Threads |-> IdleFrame]

\* The host calls DormandPrinceSingle on the body of thread t.
HostCallsSingle(t) ==
    /\ frame[t].pc = "idle"
    /\ steps < MaxSteps
    /\ \E a \in SingleArgs :
          frame' = [frame EXCEPT ![t] =
                       [IdleFrame EXCEPT !.fn = "DormandPrinceSingle", !.pc = "single",
                                         !.args = a, !.pos0 = position[t],
                                         !.vel0 = velocity[t]]]
    /\ steps' = steps + 1
    /\ UNCHANGED <<JR_H, position, velocity>>

\* DormandPrinceSingle up to its call of DormandPrinceStep: the guard, the
\* conversions, the copy loop and the thrust acceleration.
SingleEntry(t) ==
    LET f == frame[t]
        a == f.args
    IN  /\ f.pc = "single"
        /\ frame' = [frame EXCEPT ![t] =
               IF SingleGuard(a.mass) THEN [f EXCEPT !.pc = "done"]
               ELSE [f EXCEPT !.pos = ToVector3dFromDouble3(position[t]),
                              !.vel = ToVector3dFromDouble3(velocity[t]),
                              !.th  = Vec(Div(a.thrustImpulse[1], a.mass),
                                          Div(a.thrustImpulse[2], a.mass),
                                          Div(a.thrustImpulse[3], a.mass)),
                              !.pc  = "step"]]
        /\ UNCHANGED <<JR_H, position, velocity, steps>>

\* A direct call of DormandPrinceStep, pos and vel referring to the body of
\* thread t.
HostCallsStep(t) ==
    /\ frame[t].pc = "idle"
    /\ steps < MaxSteps
    /\ \E a \in StepArgs :
          frame' = [frame EXCEPT ![t] =
                       [IdleFrame EXCEPT !.fn = "DormandPrinceStep", !.pc = "step",
                                         !.args = a, !.pos = position[t],
                                         !.vel = velocity[t], !.th = a.thrustAcc,
                                         !.pos0 = position[t], !.vel0 = velocity[t]]]
    /\ steps' = steps + 1
    /\ UNCHANGED <<JR_H, position, velocity>>

\* The parameter n of DormandPrinceStep.
StepN(f) == IF f.fn = "DormandPrinceSingle" THEN f.args.numBodies ELSE f.args.n

\* The guard of DormandPrinceStep.
StepEntry(t) ==
    LET f == frame[t]
    IN  /\ f.pc = "step"
        /\ frame' = [frame EXCEPT ![t] =
               IF StepGuard(f.args.mass) THEN [f EXCEPT !.pc = StepReturn(f)]
               ELSE [f EXCEPT !.pc = "stage", !.i = 0]]
        /\ UNCHANGED <<JR_H, position, velocity, steps>>

\* StepStage with the first body of the list moved away at every stage.
StepStageMovingBodies(t) ==
    LET f   == frame[t]
        a   == f.args
        s   == StageState(0, f.i, f.pos, f.vel, f.kx, f.kv, a.dt)
        acc == StageAcceleration(s.pi, s.vi, a.mass, StepBodies(f), StepMasses(f),
                                 StepN(f), f.th, a.dragCoeff, a.areaUU)
    IN  /\ f.pc = "stage"
        /\ frame' = [frame EXCEPT ![t] =
               [f EXCEPT !.kx = f.kx @@ (f.i :> s.vi),
                         !.kv = f.kv @@ (f.i :> acc),
                         !.i  = f.i + 1,
                         !.pc = IF f.i + 1 < 7 THEN "stage" ELSE "final",
                         !.args.bodies[0] = VAdd(a.bodies[0], FarEarth)]]
        /\ UNCHANGED <<JR_H, position, velocity, steps>>

\* Stage i of DormandPrinceStep: kx[i] and kv[i].
StepStage(t) ==
    LET f   == frame[t]
        a   == f.args
        s   == StageState(0, f.i, f.pos, f.vel, f.kx, f.kv, a.dt)
        acc == StageAcceleration(s.pi, s.vi, a.mass, StepBodies(f), StepMasses(f),
                                 StepN(f), f.th, a.dragCoeff, a.areaUU)
    IN  /\ f.pc = "stage"
        /\ frame' = [frame EXCEPT ![t] =
               [f EXCEPT !.kx = f.kx @@ (f.i :> s.vi),
                         !.kv = f.kv @@ (f.i :> acc),
                         !.i  = f.i + 1,
                         !.pc = IF f.i + 1 < 7 THEN "stage" ELSE "final"]]
        /\ UNCHANGED <<JR_H, position, velocity, steps>>

\* The final loop of DormandPrinceStep, which writes pos and vel: the locals
\* posD and velD of DormandPrinceSingle, or the body of a direct call.
StepFinal(t) ==
    LET f   == frame[t]
        out == Combine(0, f.pos, f.vel, f.kx, f.kv, f.args.dt)
    IN  /\ f.pc = "final"
        /\ frame' = [frame EXCEPT ![t] =
               [f EXCEPT !.pos = out.pos, !.vel = out.vel, !.pc = StepReturn(f)]]
        /\ IF f.fn = "DormandPrinceStep"
           THEN /\ position' = [position EXCEPT ![t] = out.pos]
                /\ velocity' = [velocity EXCEPT ![t] = out.vel]
           ELSE UNCHANGED <<position, velocity>>
        /\ UNCHANGED <<JR_H, steps>>

\* SingleExit with the write going to the body of every thread.
SingleExitEverywhere(t) ==
    LET f == frame[t]
    IN  /\ f.pc = "writeback"
        /\ position' = [u \in Threads |-> ToDouble3(f.pos)]
        /\ velocity' = [u \in Threads |-> ToDouble3(f.vel)]
        /\ frame' = [frame EXCEPT ![t] = [f EXCEPT !.pc = "done"]]
        /\ UNCHANGED <<JR_H, steps>>

\* SingleExit with *position written and *velocity left as it was.
SingleExitPositionOnly(t) ==
    LET f == frame[t]
    IN  /\ f.pc = "writeback"
        /\ position' = [position EXCEPT ![t] = ToDouble3(f.pos)]
        /\ velocity' = velocity
        /\ frame' = [frame EXCEPT ![t] = [f EXCEPT !.pc = "done"]]
        /\ UNCHANGED <<JR_H, steps>>

\* The end of DormandPrinceSingle: *position and *velocity are written.
SingleExit(t) ==
    LET f == frame[t]
    IN  /\ f.pc = "writeback"
        /\ position' = [position EXCEPT ![t] = ToDouble3(f.pos)]
        /\ velocity' = [velocity EXCEPT ![t] = ToDouble3(f.vel)]
        /\ frame' = [frame EXCEPT ![t] = [f EXCEPT !.pc = "done"]]
        /\ UNCHANGED <<JR_H, steps>>

\* The call of thread t has returned and the host goes on.
Return(t) ==
    /\ frame[t].pc = "done"
    /\ frame' = [frame EXCEPT ![t] = IdleFrame]
    /\ UNCHANGED <<JR_H, position, velocity, steps>>

Next ==
    \/ HostCallsSingle("main")
    \/ SingleEntry("main")
    \/ HostCallsStep("main")
    \/ StepEntry("main")
    \/ StepStage("main")
    \/ StepFinal("main")
    \/ SingleExit("main")
    \/ Return("main")

Spec == Init /\ [][Next]_vars

(***************************************************************************)
(* The functions of the kernel called one at a time.                       *)
(***************************************************************************)
\* The altitudes asked of ComputeAtmosphericDensity: the samples of the table
\* and altitudes below and above it.
Altitudes ==
    {JR_ALT[i] : i \in 0 .. JR_N - 1} \cup {Num(-10), NInf, Num(510), Num(1000), PInf}

\* The velocity of the atmosphere at p in units per second: omega x p.
AtmVelUU(p) == Vec(Mul(Neg(OMEGA_EARTH), p[2]), Mul(OMEGA_EARTH, p[1]), Zero)

\* Where drag is asked for (relative to the Earth's centre) and the direction
\* of the wind there: below the surface, on it, at 100 km, at 500 km and above.
DragPlaces ==
    {[pos |-> Vec(Num(300), Zero, Num(400)), dir |-> Vec(Num(3), Zero, Num(4))],
     [pos |-> Vec(Zero, Num(300), Num(400)), dir |-> Vec(Zero, Num(3), Num(4))],
     [pos |-> Z(Dec(6378, -1)),              dir |-> Vec(Num(3), Zero, Num(4))],
     [pos |-> Z(Dec(6478, -1)),              dir |-> Vec(Num(3), Zero, Num(4))],
     [pos |-> Z(Dec(6878, -1)),              dir |-> Vec(Num(3), Zero, Num(4))],
     [pos |-> Z(Num(700)),                   dir |-> Vec(Num(3), Zero, Num(4))]}

\* The strengths of the wind: a relative speed of 50 km/s times the scale.
WindScales == {Zero, One, Dec(1, -8), Dec(2, -8), Dec(4, -8)}

DragArgs ==
    {[velUU |-> VAdd(AtmVelUU(pl.pos), VScale(s, pl.dir)), posRelUU |-> pl.pos,
      mass |-> m, areaUU |-> ar, Cd |-> Num(2)] :
        pl \in DragPlaces, s \in WindScales, m \in {One, Num(5)}, ar \in {Zero, One}}

\* The longest body list given to ComputeAcceleration.
MaxBodies == 2

\* Masses whose pull is G * m = 1e30 (capped at every separation used) and
\* G * m = 10 (never capped).
HeavyMass == Div(Dec(1, 30), G)
LightMass == Div(Num(10), G)

\* Attractors as an offset from the body and a mass.
HeavyAttractors ==
    {[d |-> d, m |-> HeavyMass] :
        d \in {VZero, Z(Dec(1, -11)), Z(Dec(1, -10)), Z(Num(700)), Z(Num(-700)),
               Vec(Num(300), Zero, Num(400))}}
    \cup {[d |-> Z(Num(700)), m |-> Zero]}

LightAttractors ==
    {[d |-> d, m |-> LightMass] : d \in {Z(Num(700)), Vec(Num(300), Zero, Num(400))}}
    \cup {[d |-> VZero, m |-> LightMass]}

Lists(C) == UNION {[1 .. k -> C] : k \in 0 .. MaxBodies}

AccelerationArgs ==
    {[pos |-> p, bodies |-> Arr([i \in 1 .. Len(l) |-> VAdd(p, l[i].d)]),
      masses |-> Arr([i \in 1 .. Len(l) |-> l[i].m]), n |-> Len(l)] :
        p \in {VZero, Vec(Num(100), Zero, Zero)},
        l \in Lists(HeavyAttractors) \cup Lists(LightAttractors)}

HostCallsDensity(t) ==
    /\ frame[t].pc = "idle"
    /\ \E alt \in Altitudes :
          frame' = [frame EXCEPT ![t] =
                       [IdleFrame EXCEPT !.fn = "ComputeAtmosphericDensity",
                                         !.pc = "done", !.args = [altKm |-> alt],
                                         !.ret = ComputeAtmosphericDensity(alt)]]
    /\ UNCHANGED <<JR_H, position, velocity, steps>>

HostCallsDrag(t) ==
    /\ frame[t].pc = "idle"
    /\ \E a \in DragArgs :
          frame' = [frame EXCEPT ![t] =
                       [IdleFrame EXCEPT !.fn = "ComputeDragAcceleration",
                                         !.pc = "done", !.args = a,
                                         !.ret = ComputeDragAcceleration(
                                                     a.velUU, a.posRelUU, a.mass,
                                                     a.areaUU, a.Cd)]]
    /\ UNCHANGED <<JR_H, position, velocity, steps>>

HostCallsAcceleration(t) ==
    /\ frame[t].pc = "idle"
    /\ \E a \in AccelerationArgs :
          frame' = [frame EXCEPT ![t] =
                       [IdleFrame EXCEPT !.fn = "ComputeAcceleration",
                                         !.pc = "done", !.args = a,
                                         !.ret = ComputeAcceleration(
                                                     a.pos, a.masses, a.bodies, a.n)]]
    /\ UNCHANGED <<JR_H, position, velocity, steps>>

NextFn ==
    \/ HostCallsDensity("main")
    \/ HostCallsDrag("main")
    \/ HostCallsAcceleration("main")
    \/ Return("main")

SpecFn == Init /\ [][NextFn]_vars

(***************************************************************************)
(* Properties of the integrator's guards and of inertial motion.           *)
(***************************************************************************)
\* Thread t is in an activation of the integrator.
InIntegrator(t) == frame[t].fn \in {"DormandPrinceSingle", "DormandPrinceStep"}

\* Thread t's call of fn has run to its end and has not yet returned.
Finished(t, fn) == frame[t].fn = fn /\ frame[t].pc = "done"

\* C1: a call of DormandPrinceSingle or of DormandPrinceStep with mass <= 1e-6
\* is a no-op whatever the other arguments are: at every point of the call and
\* at its end, position and velocity are what they were before the call, and no
\* stage has been evaluated.
C1_MasslessIsNoOp ==
    \A t \in Threads :
        (InIntegrator(t) /\ LessEq(frame[t].args.mass, Dec(1, -6)))
            => /\ position[t] = frame[t].pos0
               /\ velocity[t] = frame[t].vel0
               /\ frame[t].kx = <<>> /\ frame[t].kv = <<>>
               /\ frame[t].pc \notin {"stage", "final"}

\* A call of DormandPrinceSingle with mass exactly 1e-6 on a moving body under
\* thrust has come to its end.
C1_Witness ==
    \E t \in Threads :
        /\ Finished(t, "DormandPrinceSingle")
        /\ frame[t].args.mass = Dec(1, -6)
        /\ frame[t].args.thrustImpulse # VZero
        /\ frame[t].vel0 # VZero

\* C2: with numBodies = 0, zero thrust impulse, zero area and a mass above the
\* threshold, a call of DormandPrinceSingle ends with
\* position = position + velocity * dt and velocity unchanged.
C2_InertialWithoutBodies ==
    \A t \in Threads :
        (/\ Finished(t, "DormandPrinceSingle")
         /\ frame[t].args.numBodies = 0
         /\ frame[t].args.thrustImpulse = VZero
         /\ frame[t].args.areaUU = Zero
         /\ Less(Dec(1, -6), frame[t].args.mass))
            => /\ position[t] = VAdd(frame[t].pos0,
                                     VScale(frame[t].args.dt, frame[t].vel0))
               /\ velocity[t] = frame[t].vel0

(***************************************************************************)
(* Properties of ComputeAcceleration.                                      *)
(***************************************************************************)
\* The indices of the attractors of a that are not within minDistSq of a.pos.
Separated(a) ==
    SelectSeq([i \in 1 .. a.n |-> i - 1],
              LAMBDA i : ~Less(NormSq(VSub(a.bodies[i], a.pos)), minDistSq))

\* The acceleration over the body list of a with the attractors closer than
\* minDistSq removed.
AccelerationOfSeparated(a) ==
    LET keep == Separated(a)
    IN  ComputeAcceleration(a.pos,
                            Arr([k \in 1 .. Len(keep) |-> a.masses[keep[k]]]),
                            Arr([k \in 1 .. Len(keep) |-> a.bodies[keep[k]]]),
                            Len(keep))

\* The acceleration attractor i of a alone gives.
ContributionOf(a, i) ==
    ComputeAcceleration(a.pos, Arr(<<a.masses[i]>>), Arr(<<a.bodies[i]>>), 1)

\* The sum of the contributions of the attractors of a from index i on.
RECURSIVE SumOfContributions(_, _)
SumOfContributions(a, i) ==
    IF i >= a.n THEN VZero
    ELSE VAdd(ContributionOf(a, i), SumOfContributions(a, i + 1))

\* C3: an attractor at squared separation below minDistSq (0 included)
\* contributes nothing: ComputeAcceleration returns what it returns for the body
\* list with such attractors removed, and the result is finite (no division by a
\* zero distance).
C3_CloseAttractorIgnored ==
    \A t \in Threads :
        Finished(t, "ComputeAcceleration")
            => /\ frame[t].ret = AccelerationOfSeparated(frame[t].args)
               /\ VFinite(frame[t].ret)

\* ComputeAcceleration has returned a non-zero acceleration for a list of two
\* heavy bodies, one at the position itself and one apart from it.
C3_Witness ==
    \E t \in Threads :
        /\ Finished(t, "ComputeAcceleration")
        /\ frame[t].args.n = 2
        /\ Len(Separated(frame[t].args)) = 1
        /\ \E i \in 0 .. 1 : /\ frame[t].args.bodies[i] = frame[t].args.pos
                             /\ frame[t].args.masses[i] = HeavyMass
        /\ frame[t].ret # VZero

C5_EverySampleReproduced ==
    \A t \in Threads :
        Finished(t, "ComputeAtmosphericDensity")
            => \A i \in 0 .. JR_N - 1 :
                  frame[t].args.altKm = JR_ALT[i] => frame[t].ret = JR_RHO[i]

\* C5: at every sample altitude JR_ALT[i] but the last, ComputeAtmosphericDensity
\* returns JR_RHO[i]; at the last sample altitude it returns 0.
C5_SamplesBelowTopReproduced ==
    \A t \in Threads :
        Finished(t, "ComputeAtmosphericDensity")
            => /\ \A i \in 0 .. JR_N - 2 :
                     frame[t].args.altKm = JR_ALT[i] => frame[t].ret = JR_RHO[i]
               /\ frame[t].args.altKm = JR_ALT[JR_N - 1] => frame[t].ret = Zero

\* ComputeAtmosphericDensity has returned the sample for the last sample
\* altitude below the top of the table.
C5_Witness ==
    \E t \in Threads :
        /\ Finished(t, "ComputeAtmosphericDensity")
        /\ frame[t].args.altKm = JR_ALT[JR_N - 2]
        /\ frame[t].ret = JR_RHO[JR_N - 2]

\* C6: ComputeAtmosphericDensity is non-increasing over [0, 500] km: the value
\* returned for an altitude is at least the density at every altitude of the
\* table's domain that is not below it.
C6_DensityNonIncreasing ==
    \A t \in Threads :
        (/\ Finished(t, "ComputeAtmosphericDensity")
         /\ LessEq(Zero, frame[t].args.altKm)
         /\ LessEq(frame[t].args.altKm, Num(500)))
            => \A i \in 0 .. JR_N - 1 :
                  LessEq(frame[t].args.altKm, JR_ALT[i])
                      => LessEq(ComputeAtmosphericDensity(JR_ALT[i]), frame[t].ret)

\* C7: ComputeAtmosphericDensity returns 0 for every altitude >= 500 km and the
\* first density sample for every altitude <= 0.
C7_ClampedOutsideTable ==
    \A t \in Threads :
        Finished(t, "ComputeAtmosphericDensity")
            => /\ GreaterEq(frame[t].args.altKm, Num(500)) => frame[t].ret = Zero
               /\ LessEq(frame[t].args.altKm, Zero) => frame[t].ret = JR_RHO[0]

\* ComputeAtmosphericDensity has returned 0 for exactly 500 km.
C7_Witness ==
    \E t \in Threads :
        /\ Finished(t, "ComputeAtmosphericDensity")
        /\ frame[t].args.altKm = Num(500)
        /\ frame[t].ret = Zero

(***************************************************************************)
(* Properties of ComputeDragAcceleration.                                  *)
(***************************************************************************)
\* The relative wind of a drag call in units per second:
\* velocity - (-omega * y, omega * x, 0).
RelativeWind(a) == VSub(a.velUU, AtmVelUU(a.posRelUU))

\* The square of the relative wind speed of a drag call in km/s.
WindSpeedSq(a) == NormSq(VScale(UNIT_TO_KM, RelativeWind(a)))

\* The arguments a with the relative wind multiplied by k, all else the same.
WithWindTimes(a, k) ==
    [a EXCEPT !.velUU = VAdd(AtmVelUU(a.posRelUU), VScale(k, RelativeWind(a)))]

DragOf(a) == ComputeDragAcceleration(a.velUU, a.posRelUU, a.mass, a.areaUU, a.Cd)

\* The factors the relative wind is multiplied by.
WindFactors == {Dec(1, -1), Num(2)}

\* The drag magnitude squared scales with the fourth power of k.
ScalesQuadratically(a, ret, k) ==
    NormSq(DragOf(WithWindTimes(a, k))) = Mul(Mul(Mul(k, k), Mul(k, k)), NormSq(ret))

\* C8: a non-zero acceleration returned by ComputeDragAcceleration is a negative
\* scalar multiple of the relative wind vrel = velocity - (-omega*y, omega*x, 0):
\* parallel to it (zero cross product) and opposite (negative dot product).
C8_DragOpposesWind ==
    \A t \in Threads :
        (Finished(t, "ComputeDragAcceleration") /\ frame[t].ret # VZero)
            => /\ Cross(frame[t].ret, RelativeWind(frame[t].args)) = VZero
               /\ Less(Dot(frame[t].ret, RelativeWind(frame[t].args)), Zero)

\* ComputeDragAcceleration has returned a non-zero drag at a place where the
\* atmosphere moves.
C8_Witness ==
    \E t \in Threads :
        /\ Finished(t, "ComputeDragAcceleration")
        /\ frame[t].ret # VZero
        /\ AtmVelUU(frame[t].args.posRelUU) # VZero

\* C9 as stated: multiplying the relative wind by k multiplies the magnitude of
\* the drag returned by k^2, position, area, mass and drag coefficient fixed.
C9_DragQuadraticInWind ==
    \A t \in Threads :
        Finished(t, "ComputeDragAcceleration")
            => \A k \in WindFactors :
                  ScalesQuadratically(frame[t].args, frame[t].ret, k)

\* C9: multiplying the relative wind by k multiplies the magnitude of the drag
\* returned by k^2 when the relative wind speed is at least 1e-6 km/s both
\* before and after the multiplication.
C9_DragQuadraticAboveThreshold ==
    \A t \in Threads :
        Finished(t, "ComputeDragAcceleration")
            => \A k \in WindFactors :
                  (/\ LessEq(Dec(1, -12), WindSpeedSq(frame[t].args))
                   /\ LessEq(Dec(1, -12), WindSpeedSq(WithWindTimes(frame[t].args, k))))
                      => ScalesQuadratically(frame[t].args, frame[t].ret, k)

\* ComputeDragAcceleration has returned a non-zero drag for a relative wind of
\* exactly 1e-6 km/s, which doubled is above the threshold too.
C9_Witness ==
    \E t \in Threads :
        /\ Finished(t, "ComputeDragAcceleration")
        /\ frame[t].ret # VZero
        /\ WindSpeedSq(frame[t].args) = Dec(1, -12)
        /\ NormSq(DragOf(WithWindTimes(frame[t].args, Num(2)))) # Zero

(***************************************************************************)
(* The reference Dormand-Prince step of order 5: the tableau as published  *)
(* (Dormand and Prince 1980), stage j at y + dt * sum over l < j of         *)
(* A[j][l] * k[l], and the new y as y + dt * sum of B[j] * k[j].           *)
(***************************************************************************)
RefA ==
    << <<>>,
       <<Rat(1, 5)>>,
       <<Rat(3, 40), Rat(9, 40)>>,
       <<Rat(44, 45), Rat(-56, 15), Rat(32, 9)>>,
       <<Rat(19372, 6561), Rat(-25360, 2187), Rat(64448, 6561), Rat(-212, 729)>>,
       <<Rat(9017, 3168), Rat(-355, 33), Rat(46732, 5247), Rat(49, 176),
         Rat(-5103, 18656)>>,
       <<Rat(35, 384), Zero, Rat(500, 1113), Rat(125, 192), Rat(-2187, 6784),
         Rat(11, 84)>> >>

RefB ==
    <<Rat(35, 384), Zero, Rat(500, 1113), Rat(125, 192), Rat(-2187, 6784),
      Rat(11, 84), Zero>>

\* w[1] * k[0] + ... + w[n] * k[n - 1]
RECURSIVE WeightedSum(_, _, _)
WeightedSum(w, k, n) ==
    IF n = 0 THEN VZero
    ELSE VAdd(WeightedSum(w, k, n - 1), VScale(w[n], k[n - 1]))

\* y + dt * (w[1] * k[0] + ... + w[n] * k[n - 1])
RefAdvance(y, dt, w, k, n) == VAdd(y, VScale(dt, WeightedSum(w, k, n)))

\* The stage derivatives kx[j], kv[j] of the activation f are those of the
\* reference step: the velocity and the acceleration at the stage's state.
RefStage(f, j) ==
    LET pj == RefAdvance(f.pos0, f.args.dt, RefA[j + 1], f.kx, j)
        vj == RefAdvance(f.vel0, f.args.dt, RefA[j + 1], f.kv, j)
    IN  /\ f.kx[j] = vj
        /\ f.kv[j] = StageAcceleration(pj, vj, f.args.mass, StepBodies(f),
                                       StepMasses(f), StepN(f), f.th,
                                       f.args.dragCoeff, f.args.areaUU)

\* C10: a step that has run its stages ends with
\* pos = pos + dt * sum of b_dp[i] * kx[i] and
\* vel = vel + dt * sum of b_dp[i] * kv[i] over the 7 stages, kx and kv being
\* the stage derivatives of the reference Dormand-Prince step, whose result it
\* therefore equals; DormandPrinceSingle hands that result back.
C10_FinalCombination ==
    \A t \in Threads :
        (InIntegrator(t) /\ frame[t].pc \in {"writeback", "done"} /\ frame[t].i = 7)
            => LET f == frame[t]
                   b == [i \in 1 .. 7 |-> b_dp[i - 1]]
               IN  /\ f.pos = RefAdvance(f.pos0, f.args.dt, b, f.kx, 7)
                   /\ f.vel = RefAdvance(f.vel0, f.args.dt, b, f.kv, 7)
                   /\ \A j \in 0 .. 6 : RefStage(f, j)
                   /\ f.pos = RefAdvance(f.pos0, f.args.dt, RefB, f.kx, 7)
                   /\ f.vel = RefAdvance(f.vel0, f.args.dt, RefB, f.kv, 7)
                   /\ f.pc = "done" => position[t] = f.pos /\ velocity[t] = f.vel

\* A call of DormandPrinceSingle under thrust, with a time step of 2 s, has run
\* its seven stages and handed back a new position and velocity.
C10_Witness ==
    \E t \in Threads :
        /\ Finished(t, "DormandPrinceSingle")
        /\ frame[t].i = 7
        /\ frame[t].args.dt = Num(2)
        /\ frame[t].args.thrustImpulse # VZero
        /\ VFinite(position[t])
        /\ position[t] # frame[t].pos0
        /\ velocity[t] # frame[t].vel0

(***************************************************************************)
(* The weights of the final combination.                                   *)
(***************************************************************************)
\* w[0] + ... + w[n - 1]
RECURSIVE SumTo(_, _)
SumTo(w, n) == IF n = 0 THEN Zero ELSE Add(SumTo(w, n - 1), w[n - 1])

\* The seven stage derivatives k are one and the same vector.
SameDerivatives(k) == \A i \in 0 .. 6 : k[i] = k[0]

\* C11: the weights b_dp are 35/384, 0, 500/1113, 125/192, -2187/6784, 11/84, 0
\* and sum to exactly 1, before and after every operation of the integrator (the
\* table is a constant, no step can write it); so a step whose seven velocity
\* derivatives are one vector k moves the body by exactly dt * k.
C11_WeightsSumToOne ==
    /\ b_dp = [i \in 0 .. 6 |-> RefB[i + 1]]
    /\ SumTo(b_dp, 7) = One
    /\ \A t \in Threads :
          (/\ InIntegrator(t)
           /\ frame[t].pc \in {"writeback", "done"}
           /\ frame[t].i = 7
           /\ SameDerivatives(frame[t].kx)
           /\ VFinite(frame[t].kx[0]))
              => frame[t].pos = VAdd(frame[t].pos0,
                                     VScale(frame[t].args.dt, frame[t].kx[0]))

\* A call of DormandPrinceSingle on a moving body, without thrust, has run its
\* seven stages at one velocity and moved the body by dt times that velocity.
C11_Witness ==
    \E t \in Threads :
        /\ Finished(t, "DormandPrinceSingle")
        /\ frame[t].i = 7
        /\ SameDerivatives(frame[t].kx)
        /\ frame[t].kx[0] = Z(Num(90))
        /\ frame[t].args.dt = Num(2)
        /\ position[t] = VAdd(frame[t].pos0, Z(Num(180)))

(***************************************************************************)
(* Two threads of the host, each propagating its own body with calls of    *)
(* DormandPrinceSingle that interleave step by step.                       *)
(***************************************************************************)
\* The number of calls the threads make between them: one for each thread.
ConcurrentCalls == Cardinality(Threads)

\* The arguments of the concurrent calls: coasting, under thrust, and a body
\* at the mass threshold; one body list, which the threads share.
ConcurrentArgs ==
    {SingleArgsOf(m, w, One, Z(th), Zero, VNaN, Zero) :
        m \in {One, Dec(1, -6)},
        w \in {[bodies |-> Arr(<<FarEarth>>), masses |-> Arr(<<Zero>>), numBodies |-> 1]},
        th \in {Zero, Num(16200)}}

\* Thread t of the host calls DormandPrinceSingle on its own body.
ThreadCallsSingle(t) ==
    /\ frame[t].pc = "idle"
    /\ steps < ConcurrentCalls
    /\ \E a \in ConcurrentArgs :
          frame' = [frame EXCEPT ![t] =
                       [IdleFrame EXCEPT !.fn = "DormandPrinceSingle", !.pc = "single",
                                         !.args = a, !.pos0 = position[t],
                                         !.vel0 = velocity[t]]]
    /\ steps' = steps + 1
    /\ UNCHANGED <<JR_H, position, velocity>>

NextConcurrent ==
    \E t \in Threads :
        \/ ThreadCallsSingle(t)
        \/ SingleEntry(t)
        \/ StepEntry(t)
        \/ StepStage(t)
        \/ StepFinal(t)
        \/ SingleExit(t)
        \/ Return(t)

SpecConcurrent == Init /\ [][NextConcurrent]_vars

(***************************************************************************)
(* Properties of concurrent steps.                                         *)
(***************************************************************************)
\* The call thread t has finished ended as a call running alone ends: without
\* any change if the mass is at or below the threshold, and otherwise with the
\* result of the reference step on the body's state at the call.
EndsAsAlone(t) ==
    LET f == frame[t]
    IN  IF LessEq(f.args.mass, Dec(1, -6))
        THEN position[t] = f.pos0 /\ velocity[t] = f.vel0
        ELSE /\ f.i = 7
             /\ \A j \in 0 .. 6 : RefStage(f, j)
             /\ position[t] = RefAdvance(f.pos0, f.args.dt, RefB, f.kx, 7)
             /\ velocity[t] = RefAdvance(f.vel0, f.args.dt, RefB, f.kv, 7)

\* Thread u's body is written in this step, and by nothing but the end of
\* thread u's own call.
WrittenByOwnCallOnly(u) ==
    (position'[u] # position[u] \/ velocity'[u] # velocity[u])
        => frame[u].pc = "writeback" /\ frame'[u].pc = "done"

\* C12: under every interleaving of the calls of DormandPrinceSingle two
\* threads make on their own bodies, a body is written only by the end of the
\* call that propagates it, no step writes the table JR_H, a body keeps the
\* state it had at the call until that call writes it, and every call ends with
\* the result it has when it runs alone.
C12_ConcurrentStepsIndependent ==
    /\ [][JR_H' = JR_H /\ \A u \in Threads : WrittenByOwnCallOnly(u)]_vars
    /\ [](\A t \in Threads :
             /\ (InIntegrator(t) /\ frame[t].pc # "done")
                    => position[t] = frame[t].pos0 /\ velocity[t] = frame[t].vel0
             /\ Finished(t, "DormandPrinceSingle") => EndsAsAlone(t))

\* Thread main's call under thrust has written a new state to its body while
\* thread worker's call under thrust is in its stages.
C12_Witness ==
    /\ Finished("main", "DormandPrinceSingle")
    /\ frame["main"].i = 7
    /\ frame["main"].args.thrustImpulse # VZero
    /\ position["main"] # frame["main"].pos0
    /\ frame["worker"].pc = "stage"
    /\ frame["worker"].i \in 1 .. 6
    /\ frame["worker"].args.thrustImpulse # VZero

(***************************************************************************)
(* Static initialisation.  JR_H has static storage and starts as zeros;    *)
(* the constructor of the one object _jrInit runs when the library is      *)
(* loaded, before the host can call anything.                              *)
(***************************************************************************)
\* The loop of JRInit's constructor with its last iteration left out.
JRInitEndShort == JR_N - 2

\* for (int i = 0; i < JR_N - 1; ++i)
JRInitEnd == JR_N - 1

\* The library is being loaded: the thread is in JRInit's constructor.
InitLoading ==
    /\ JR_H = [i \in 0 .. JR_N - 2 |-> Zero]
    /\ \E s \in InitStates :
          /\ position = [t \in Threads |-> s.pos]
          /\ velocity = [t \in Threads |-> s.vel]
    /\ steps = 0
    /\ frame = [t \in Threads |->
                   IF t = "main"
                   THEN [IdleFrame EXCEPT !.fn = "JRInit", !.pc = "init", !.i = 0]
                   ELSE IdleFrame]

\* One iteration of the constructor's loop, or its end.
JRInitStep(t) ==
    LET f == frame[t]
    IN  /\ f.pc = "init"
        /\ IF f.i < JRInitEnd
           THEN /\ JR_H' = [JR_H EXCEPT ![f.i] = JRInit[f.i]]
                /\ frame' = [frame EXCEPT ![t] = [f EXCEPT !.i = f.i + 1]]
           ELSE /\ JR_H' = JR_H
                /\ frame' = [frame EXCEPT ![t] = IdleFrame]
        /\ UNCHANGED <<position, velocity, steps>>

\* The library is loaded, and then the host queries densities, drag and
\* gravity and integrates, in any order.
NextLoaded ==
    \/ JRInitStep("main")
    \/ HostCallsDensity("main")
    \/ HostCallsDrag("main")
    \/ HostCallsAcceleration("main")
    \/ HostCallsSingle("main")
    \/ SingleEntry("main")
    \/ HostCallsStep("main")
    \/ StepEntry("main")
    \/ StepStage("main")
    \/ StepFinal("main")
    \/ SingleExit("main")
    \/ Return("main")

SpecLoaded == InitLoading /\ [][NextLoaded]_vars

\* -(JR_ALT[i+1] - JR_ALT[i]) / ln(JR_RHO[i+1] / JR_RHO[i])
ScaleHeightOf(i) ==
    NegDivLog(Sub(JR_ALT[i + 1], JR_ALT[i]), Div(JR_RHO[i + 1], JR_RHO[i]))

\* This step writes JR_H: it is a step of the constructor, and it writes the
\* one entry the loop is at, which nothing has written before.
WritesOneEntryOnce ==
    LET i == frame["main"].i
    IN  /\ frame["main"].fn = "JRInit"
        /\ i \in 0 .. JR_N - 2
        /\ frame'["main"].i = i + 1
        /\ JR_H[i] = Zero
        /\ JR_H'[i] = ScaleHeightOf(i)
        /\ \A k \in (0 .. JR_N - 2) \ {i} : JR_H'[k] = JR_H[k]

\* C13: JR_H is built by the one run of JRInit's constructor, which writes
\* each of the 50 entries once and is over before any function of the kernel
\* runs; the constructor never runs again and nothing else writes JR_H, so
\* whenever a density query or an integration step runs, and after any
\* sequence of them, every JR_H[i] is
\* -(JR_ALT[i+1] - JR_ALT[i]) / ln(JR_RHO[i+1] / JR_RHO[i]).
C13_TableBuiltOnceThenReadOnly ==
    /\ [][JR_H' # JR_H => WritesOneEntryOnce]_vars
    /\ [][\A t \in Threads :
             frame[t].fn # "JRInit" => frame'[t].fn # "JRInit"]_vars
    /\ [](IF \E t \in Threads : frame[t].fn = "JRInit"
          THEN \A t \in Threads : frame[t].fn \in {"JRInit", "none"}
          ELSE \A i \in 0 .. JR_N - 2 : JR_H[i] = ScaleHeightOf(i))

\* After the library was loaded and an integration step was made, a density
\* query inside the table (at 100 km) has read the scale heights.
C13_Witness ==
    /\ steps = 1
    /\ Finished("main", "ComputeAtmosphericDensity")
    /\ frame["main"].args.altKm = Num(100)
    /\ frame["main"].ret = JR_RHO[10]
    /\ \A i \in 0 .. JR_N - 2 : JR_H[i] = ScaleHeightOf(i)

(***************************************************************************)
(* The attracting-body list.                                               *)
(***************************************************************************)
\* The list thread t's call was given: the arrays and their length.
BodyListOf(t) ==
    LET a == frame[t].args
    IN  <<a.bodies, a.masses, IF frame[t].fn = "DormandPrinceSingle"
                              THEN a.numBodies ELSE a.n>>

\* The arrays DormandPrinceStep reads hold the caller's n bodies and masses.
ReadsCallersList(f) ==
    \A i \in 0 .. StepN(f) - 1 :
        /\ StepBodies(f)[i] = ToVector3dFromVector3(f.args.bodies[i])
        /\ StepMasses(f)[i] = f.args.masses[i]

\* C14: a call of the integrator leaves the caller's arrays bodies and masses
\* as they were at the call, at every step of the call and at its end; and in
\* DormandPrinceStep every stage evaluated so far has been evaluated with the
\* positions and masses the caller passed.
C14_BodyListReadOnly ==
    /\ [][\A t \in Threads :
             (InIntegrator(t) /\ frame'[t].fn = frame[t].fn)
                => BodyListOf(t)' = BodyListOf(t)]_vars
    /\ [](\A t \in Threads :
             (InIntegrator(t) /\ frame[t].pc \in {"stage", "final", "writeback"})
                => /\ ReadsCallersList(frame[t])
                   /\ \A j \in 0 .. frame[t].i - 1 : RefStage(frame[t], j))

\* A call of DormandPrinceSingle with two attracting bodies has run its seven
\* stages and moved the body.
C14_Witness ==
    \E t \in Threads :
        /\ Finished(t, "DormandPrinceSingle")
        /\ frame[t].args.numBodies = 2
        /\ frame[t].i = 7
        /\ frame[t].args.bodies = Arr(<<FarEarth, Z(Num(-1400))>>)
        /\ position[t] # frame[t].pos0

(***************************************************************************)
(* The scale heights a table yields.                                       *)
(***************************************************************************)
\* The scale height -dh / ln(q), kept as the pair <<dh, q>>, is a positive
\* finite number: the band has a positive width and the density falls across
\* it by a ratio strictly between 0 and 1.  (q = 1 gives a division by zero,
\* q > 1 a negative height, q <= 0 or an undefined q no logarithm.)
PositiveScaleHeight(h) ==
    /\ IsFinite(h[1]) /\ Less(Zero, h[1])
    /\ IsFinite(h[2]) /\ Less(Zero, h[2]) /\ Less(h[2], One)

\* C15: a table with a non-positive density, a rising pair of densities or
\* altitudes that do not rise is rejected when JR_H is built, so no function of
\* the kernel ever runs while some scale height JR_H[i] is negative, zero,
\* infinite or undefined.
C15_NoCallWithBadScaleHeight ==
    \A t \in Threads :
        frame[t].fn \notin {"none", "JRInit"}
            => \A i \in 0 .. JR_N - 2 : PositiveScaleHeight(JR_H[i])

(***************************************************************************)
(* DormandPrinceSingle up to its call of DormandPrinceStep, the copy loop  *)
(* taken one iteration at a time, for body lists up to and beyond the      *)
(* capacity of bodiesD and massesD.  What follows the call does not write  *)
(* the two buffers.  A write beyond a buffer is undefined behaviour: the   *)
(* process may be stopped, or the write lands in whatever lies above       *)
(* the buffer on the stack, which may be posD or velD.                     *)
(***************************************************************************)
\* A list of n bodies without mass, all at the same place.
LongWorld(n) ==
    [bodies |-> [i \in 0 .. n - 1 |-> FarEarth],
     masses |-> [i \in 0 .. n - 1 |-> Zero], numBodies |-> n]

\* Calls with no body, one body, as many as the buffers hold and one more.
BoundaryArgs ==
    {SingleArgsOf(m, LongWorld(n), One, VZero, Zero, VNaN, Zero) :
        m \in {One, Dec(1, -6)},
        n \in {0, 1, BodiesCapacity, BodiesCapacity + 1}}

HostCallsSingleLong(t) ==
    /\ frame[t].pc = "idle"
    /\ steps < MaxSteps
    /\ \E a \in BoundaryArgs :
          frame' = [frame EXCEPT ![t] =
                       [IdleFrame EXCEPT !.fn = "DormandPrinceSingle", !.pc = "single",
                                         !.args = a, !.pos0 = position[t],
                                         !.vel0 = velocity[t]]]
    /\ steps' = steps + 1
    /\ UNCHANGED <<JR_H, position, velocity>>

\* The guard and the conversions of *position and *velocity.
SingleBegin(t) ==
    LET f == frame[t]
    IN  /\ f.pc = "single"
        /\ frame' = [frame EXCEPT ![t] =
               IF SingleGuard(f.args.mass) THEN [f EXCEPT !.pc = "done"]
               ELSE [f EXCEPT !.pos = ToVector3dFromDouble3(position[t]),
                              !.vel = ToVector3dFromDouble3(velocity[t]),
                              !.i   = 0,
                              !.pc  = "copy"]]
        /\ UNCHANGED <<JR_H, position, velocity, steps>>

\* The copy loop is about to write bodiesD[i] and massesD[i].
WritesIndex(f) == f.pc = "copy" /\ f.i < f.args.numBodies

\* One iteration of the copy loop.
SingleCopy(t) ==
    LET f == frame[t]
        b == ToVector3dFromVector3(f.args.bodies[f.i])
    IN  /\ WritesIndex(f)
        /\ IF f.i < BodiesCapacity
           THEN frame' = [frame EXCEPT ![t] = [f EXCEPT !.i = f.i + 1]]
           ELSE \/ frame' = [frame EXCEPT ![t] = [f EXCEPT !.pc = "crashed"]]
                \/ \E p \in {f.pos, b}, v \in {f.vel, b} :
                      frame' = [frame EXCEPT ![t] =
                                   [f EXCEPT !.i = f.i + 1, !.pos = p, !.vel = v]]
        /\ UNCHANGED <<JR_H, position, velocity, steps>>

\* The end of the copy loop: the thrust acceleration and the call of
\* DormandPrinceStep.
SingleCall(t) ==
    LET f == frame[t]
        a == f.args
    IN  /\ f.pc = "copy"
        /\ ~ WritesIndex(f)
        /\ frame' = [frame EXCEPT ![t] =
               [f EXCEPT !.th = Vec(Div(a.thrustImpulse[1], a.mass),
                                    Div(a.thrustImpulse[2], a.mass),
                                    Div(a.thrustImpulse[3], a.mass)),
                         !.i  = 0,
                         !.pc = "step"]]
        /\ UNCHANGED <<JR_H, position, velocity, steps>>

NextBoundary ==
    \/ HostCallsSingleLong("main")
    \/ SingleBegin("main")
    \/ SingleCopy("main")
    \/ SingleCall("main")
    \/ Return("main")

SpecBoundary == Init /\ [][NextBoundary]_vars

\* C16: for every numBodies passed to DormandPrinceSingle, every index the
\* copy loop writes into bodiesD and massesD is less than 256.
C16_CopyWithinCapacity ==
    \A t \in Threads : WritesIndex(frame[t]) => frame[t].i < BodiesCapacity

\* C17: the table satisfies its invariant: JR_ALT is strictly increasing, every
\* JR_RHO[i] is strictly positive, JR_RHO is non-increasing, and so every scale
\* height JR_H[i] built from it is positive.
C17_TableInvariant ==
    /\ \A i \in 0 .. JR_N - 2 : Less(JR_ALT[i], JR_ALT[i + 1])
    /\ \A i \in 0 .. JR_N - 1 : Less(Zero, JR_RHO[i])
    /\ \A i \in 0 .. JR_N - 2 : LessEq(JR_RHO[i + 1], JR_RHO[i])
    /\ \A i \in 0 .. JR_N - 2 : PositiveScaleHeight(JR_H[i])

(***************************************************************************)
(* The thresholds of ComputeDragAcceleration.                              *)
(***************************************************************************)
\* The altitude in km of a drag call: max(0, |posRelUU| * UNIT_TO_KM - radius).
AltitudeOf(a) ==
    StdMax(Zero, Sub(Sqrt(NormSq(VScale(UNIT_TO_KM, a.posRelUU))), EARTH_RADIUS_KM))

\* C18: ComputeDragAcceleration returns exactly the zero vector whenever the
\* density at the altitude of the call is below 1e-12, as it is at every
\* altitude of 500 km or more, or the relative wind is slower than 1e-6 km/s; and
\* it does so without dividing by the mass: the same call for a body of mass 0
\* returns the zero vector too.
C18_DragZeroBelowThresholds ==
    \A t \in Threads :
        Finished(t, "ComputeDragAcceleration")
            => LET a   == frame[t].args
                   rho == ComputeAtmosphericDensity(AltitudeOf(a))
               IN  /\ GreaterEq(AltitudeOf(a), Num(500)) => Less(rho, Dec(1, -12))
                   /\ (Less(rho, Dec(1, -12)) \/ Less(WindSpeedSq(a), Dec(1, -12)))
                         => /\ frame[t].ret = VZero
                            /\ DragOf([a EXCEPT !.mass = Zero]) = VZero

\* ComputeDragAcceleration has returned zero for a body with a cross-section
\* in a wind of 50 km/s at exactly 500 km altitude.
C18_Witness ==
    \E t \in Threads :
        /\ Finished(t, "ComputeDragAcceleration")
        /\ AltitudeOf(frame[t].args) = Num(500)
        /\ WindSpeedSq(frame[t].args) = Num(2500)
        /\ frame[t].args.areaUU = One
        /\ frame[t].ret = VZero

(***************************************************************************)
(* The stages of DormandPrinceStep.                                        *)
(***************************************************************************)
\* Row j of a_dp up to the diagonal, as weights of the stages 0 .. j - 1.
RowOf(j) == [l \in 1 .. j |-> a_dp[j][l - 1]]

\* Stage j of the activation f was evaluated at the state before the step
\* plus dt * a_dp[j][l] * (derivative of stage l) summed over the stages l < j:
\* its kx is the velocity there, its kv gravity + thrust + drag there.
StageAtAccumulatedState(f, j) ==
    LET pj == RefAdvance(f.pos0, f.args.dt, RowOf(j), f.kx, j)
        vj == RefAdvance(f.vel0, f.args.dt, RowOf(j), f.kv, j)
    IN  /\ f.kx[j] = vj
        /\ f.kv[j] = VAdd(VAdd(ComputeAcceleration(pj, StepMasses(f), StepBodies(f),
                                                   StepN(f)),
                               f.th),
                          ComputeDragAcceleration(vj, VSub(pj, StepBodies(f)[0]),
                                                  f.args.mass, f.args.areaUU,
                                                  f.args.dragCoeff))

\* C19: while DormandPrinceStep evaluates its stages, the stages evaluated are
\* exactly 0 .. i - 1, each stage j in 1 .. 6 at the state before the step plus
\* dt * a_dp[j][l] * (derivative of stage l) accumulated over the stages l < j,
\* with gravity, thrust and drag evaluated there; and pos and vel (and the
\* caller's position and velocity) are what they were before the step until all
\* seven stages have been evaluated.
C19_StagesThenUpdate ==
    \A t \in Threads :
        LET f == frame[t]
        IN  (InIntegrator(t) /\ f.pc \in {"stage", "final"})
                => /\ f.i \in 0 .. 7
                   /\ DOMAIN f.kx = 0 .. f.i - 1
                   /\ DOMAIN f.kv = 0 .. f.i - 1
                   /\ \A j \in 0 .. f.i - 1 : StageAtAccumulatedState(f, j)
                   /\ f.pos = f.pos0 /\ f.vel = f.vel0
                   /\ position[t] = f.pos0 /\ velocity[t] = f.vel0
                   /\ f.pc = "final" <=> f.i = 7

\* DormandPrinceStep, under thrust with a time step of 2 s on a moving body,
\* has evaluated its seven stages and has not yet updated pos and vel.
C19_Witness ==
    \E t \in Threads :
        /\ InIntegrator(t)
        /\ frame[t].pc = "final"
        /\ frame[t].i = 7
        /\ frame[t].args.dt = Num(2)
        /\ frame[t].th # VZero
        /\ frame[t].vel0 # VZero
        /\ frame[t].kx[6] # frame[t].kx[0]
        /\ frame[t].pos = frame[t].pos0

(***************************************************************************)
(* The band of an altitude.                                                *)
(***************************************************************************)
\* The segment a search of JR_ALT finds for an altitude inside the table: the
\* i with JR_ALT[i] <= altKm < JR_ALT[i + 1].
SegmentOf(altKm) ==
    CHOOSE i \in 0 .. JR_N - 2 : LessEq(JR_ALT[i], altKm) /\ Less(altKm, JR_ALT[i + 1])

\* How far above the altitude of a query the band is asked for as well: at it,
\* just above it, in the middle of the band and just below the next sample.
BandOffsets == {Zero, Dec(1, -3), Num(5), Dec(9999, -3)}

\* C20: for every altitude strictly between JR_ALT[0] and JR_ALT[JR_N - 1], the
\* index ComputeAtmosphericDensity picks lies in 0 .. JR_N - 2, so that its
\* reads of JR_ALT, JR_RHO and JR_H are within bounds, and satisfies
\* JR_ALT[idx] <= altitude < JR_ALT[idx + 1]: it is the segment a search of
\* JR_ALT returns.
C20_BandContainsAltitude ==
    \A t \in Threads :
        Finished(t, "ComputeAtmosphericDensity")
            => \A d \in BandOffsets :
                  LET alt == Add(frame[t].args.altKm, d)
                      idx == PickBand(alt)
                  IN  (Less(JR_ALT[0], alt) /\ Less(alt, JR_ALT[JR_N - 1]))
                         => /\ idx \in 0 .. JR_N - 2
                            /\ idx \in DOMAIN JR_H
                            /\ {idx, idx + 1} \subseteq DOMAIN JR_ALT
                            /\ idx \in DOMAIN JR_RHO
                            /\ LessEq(JR_ALT[idx], alt)
                            /\ Less(alt, JR_ALT[idx + 1])
                            /\ idx = SegmentOf(alt)

\* ComputeAtmosphericDensity has answered a query in the last band, at 490 km,
\* and the band picked just below 500 km is the last one too.
C20_Witness ==
    \E t \in Threads :
        /\ Finished(t, "ComputeAtmosphericDensity")
        /\ frame[t].args.altKm = Num(490)
        /\ frame[t].ret = JR_RHO[JR_N - 2]
        /\ PickBand(Dec(499999, -3)) = JR_N - 2
        /\ PickBand(Num(495)) = SegmentOf(Num(495))

(***************************************************************************)
(* The order of the body list.                                             *)
(***************************************************************************)
\* The orders (permutations) of the indices 0 .. n - 1.
IndexOrders(n) ==
    {p \in [0 .. n - 1 -> 0 .. n - 1] : \A i, j \in 0 .. n - 1 : p[i] = p[j] => i = j}

\* The call a with its (position, mass) pairs in the order p.
Permuted(a, p) ==
    [a EXCEPT !.bodies = [i \in 0 .. a.n - 1 |-> a.bodies[p[i]]],
              !.masses = [i \in 0 .. a.n - 1 |-> a.masses[p[i]]]]

\* The (position, mass) pairs of a that ComputeAcceleration skips.
SkippedPairs(a) ==
    {<<a.bodies[i], a.masses[i]>> :
        i \in {k \in 0 .. a.n - 1 : TooClose(NormSq(VSub(a.bodies[k], a.pos)))}}

\* C21: for every permutation of the (position, mass) pairs of its body list
\* ComputeAcceleration returns the same acceleration, arithmetic being exact,
\* and skips the same bodies.
C21_OrderOfBodiesIrrelevant ==
    \A t \in Threads :
        Finished(t, "ComputeAcceleration")
            => \A p \in IndexOrders(frame[t].args.n) :
                  LET a == frame[t].args
                      b == Permuted(a, p)
                  IN  /\ ComputeAcceleration(b.pos, b.masses, b.bodies, b.n)
                            = frame[t].ret
                      /\ SkippedPairs(b) = SkippedPairs(a)

\* ComputeAcceleration has returned for a list of two different bodies, the
\* first of which is skipped and the second of which pulls.
C21_Witness ==
    \E t \in Threads :
        /\ Finished(t, "ComputeAcceleration")
        /\ frame[t].args.n = 2
        /\ frame[t].args.bodies[0] # frame[t].args.bodies[1]
        /\ TooClose(NormSq(VSub(frame[t].args.bodies[0], frame[t].args.pos)))
        /\ ContributionOf(frame[t].args, 1) # VZero
        /\ frame[t].ret = ContributionOf(frame[t].args, 1)

(***************************************************************************)
(* The altitude of a drag call.                                            *)
(***************************************************************************)
\* The distance of a drag call from the primary's centre in km.
RadiusKm(a) == Sqrt(NormSq(VScale(UNIT_TO_KM, a.posRelUU)))

\* The drag -1/2 Cd A rho / m |vrel| vrel of the call a at the density rho, in
\* units per second squared, or zero in a wind below 1e-6 km/s.
DragAtDensity(a, rho) ==
    IF Less(WindSpeedSq(a), Dec(1, -12)) THEN VZero
    ELSE LET w == RelativeWind(a)
             c == Div(Mul(Mul(Mul(Dec(-5, 2), a.Cd), a.areaUU), rho), a.mass)
         IN  VScale(Mul(c, Sqrt(NormSq(w))), w)

\* C22: the altitude ComputeDragAcceleration passes to the density model is
\* max(0, |positionKm| - EARTH_RADIUS_KM): it is never negative, and for every
\* position at or inside the primary's radius it is 0 and the density used is
\* the first sample of the table, JR_RHO[0].
C22_AltitudeClamped ==
    \A t \in Threads :
        Finished(t, "ComputeDragAcceleration")
            => LET a   == frame[t].args
                   alt == DragAltitude(a.posRelUU)
               IN  /\ LessEq(Zero, alt)
                   /\ alt = IF Less(EARTH_RADIUS_KM, RadiusKm(a))
                            THEN Sub(RadiusKm(a), EARTH_RADIUS_KM) ELSE Zero
                   /\ LessEq(RadiusKm(a), EARTH_RADIUS_KM)
                         => /\ alt = Zero
                            /\ ComputeAtmosphericDensity(alt) = JR_RHO[0]
                            /\ frame[t].ret = DragAtDensity(a, JR_RHO[0])

\* ComputeDragAcceleration has returned a non-zero drag 1378 km below the
\* surface of the primary.
C22_Witness ==
    \E t \in Threads :
        /\ Finished(t, "ComputeDragAcceleration")
        /\ RadiusKm(frame[t].args) = Num(5000)
        /\ frame[t].ret # VZero
        /\ frame[t].ret = DragAtDensity(frame[t].args, JR_RHO[0])

(***************************************************************************)
(* The end of a call.  A call has no wait, lock or callback: the thread    *)
(* executes it statement after statement, and it ends if the number of     *)
(* steps it has left is finite and falls with every step.                  *)
(***************************************************************************)
\* An upper bound on the steps the activation f has left: the entry of
\* DormandPrinceSingle, the guard of DormandPrinceStep, seven stages, the final
\* loop and the write-back.
StepsLeft(f) ==
    CASE f.pc = "single"    -> 11
      [] f.pc = "step"      -> 10
      [] f.pc = "stage"     -> 9 - f.i
      [] f.pc = "final"     -> 2
      [] f.pc = "writeback" -> 1
      [] OTHER              -> 0

\* Thread t's body has the state it had when the call began.
Untouched(t) == position[t] = frame[t].pos0 /\ velocity[t] = frame[t].vel0

\* Thread t's body has the state of one full step from the state it had when
\* the call began: all seven stages combined with the weights.
FullyStepped(t) ==
    LET f == frame[t]
    IN  /\ f.i = 7
        /\ DOMAIN f.kx = 0 .. 6 /\ DOMAIN f.kv = 0 .. 6
        /\ position[t] = RefAdvance(f.pos0, f.args.dt, RefB, f.kx, 7)
        /\ velocity[t] = RefAdvance(f.vel0, f.args.dt, RefB, f.kv, 7)

WithBeyond(bs, n, g) == [k \in DOMAIN bs |-> IF k < n THEN bs[k] ELSE g]

\* C24: a step reads the attracting-body arrays only at indices below
\* numBodies, bodies[0] for the drag included: what the elements at or beyond
\* numBodies hold makes no difference to the derivative of the first stage.
C24_ReadsBelowNumBodies ==
    \A t \in Threads :
        LET f == frame[t]
        IN  (InIntegrator(t) /\ f.pc \in {"stage", "final"} /\ f.i >= 1)
                => \A g \in StackBodies :
                      f.kv[0] = StageAcceleration(
                                    f.pos0, f.vel0, f.args.mass,
                                    WithBeyond(StepBodies(f), StepN(f), g),
                                    StepMasses(f), StepN(f), f.th,
                                    f.args.dragCoeff, f.args.areaUU)

(***************************************************************************)
(* A step under thrust alone.                                              *)
(***************************************************************************)
\* The acceleration J / mass of the call a.
ThrustAccelerationOf(a) == VScale(Div(One, a.mass), a.thrustImpulse)

\* The call of thread t has ended as uniformly accelerated motion does:
\* the thrust acceleration at each of the seven stages,
\* velocity + a * dt and position + velocity * dt + a * dt^2 / 2.
UniformlyAccelerated(t) ==
    LET f  == frame[t]
        a  == ThrustAccelerationOf(f.args)
        dt == f.args.dt
    IN  /\ f.i = 7
        /\ \A j \in 0 .. 6 : f.kv[j] = a
        /\ velocity[t] = VAdd(f.vel0, VScale(dt, a))
        /\ position[t] = VAdd(VAdd(f.pos0, VScale(dt, f.vel0)),
                              VScale(Mul(Dec(5, -1), Mul(dt, dt)), a))

\* C25: with no attractors (numBodies = 0), zero area and a non-zero thrust
\* impulse J, a call of DormandPrinceSingle for a mass above the threshold ends
\* with velocity + (J / mass) * dt and
\* position + velocity * dt + (J / mass) * dt^2 / 2, the acceleration J / mass
\* having been the derivative at every one of the seven stages.
C25_ThrustAloneIsUniform ==
    \A t \in Threads :
        (/\ Finished(t, "DormandPrinceSingle")
         /\ frame[t].args.numBodies = 0
         /\ frame[t].args.areaUU = Zero
         /\ frame[t].args.thrustImpulse # VZero
         /\ Less(Dec(1, -6), frame[t].args.mass))
            => UniformlyAccelerated(t)

(***************************************************************************)
(* Consistency of the tableau.                                             *)
(***************************************************************************)
\* The stages evaluated so far in frame f had the thrust acceleration alone
\* as the derivative of the velocity.
ThrustAloneSoFar(f) == \A j \in DOMAIN f.kv : f.kv[j] = f.th

\* C26: for every stage i in 0..6 the entries a_dp[i][j] with j < i sum to
\* c_dp[i] exactly, and every entry a_dp[i][j] with j >= i is zero.  In a
\* step, accordingly, stage i of a motion under a constant acceleration is
\* evaluated at the velocity vel0 + c_dp[i] * dt * th.
C26_RowsSumToNodes ==
    /\ \A i \in 0 .. 6 :
          /\ SumTo(a_dp[i], i) = c_dp[i]
          /\ \A j \in 0 .. 5 : j >= i => a_dp[i][j] = Zero
    /\ \A t \in Threads :
          LET f == frame[t]
          IN  (InIntegrator(t) /\ ThrustAloneSoFar(f))
                  => \A i \in DOMAIN f.kx :
                        f.kx[i] = VAdd(f.vel0,
                                       VScale(Mul(c_dp[i], f.args.dt), f.th))

\* A step under thrust alone has passed all seven stages, and the velocity
\* each stage was evaluated at lies at its node: vel0 + c_dp[i] * dt * th.
C26_Witness ==
    \E t \in Threads :
        LET f == frame[t]
        IN  /\ InIntegrator(t)
            /\ f.pc = "final"
            /\ f.th # VZero
            /\ \A i \in 0 .. 6 :
                  f.kx[i] = VAdd(f.vel0, VScale(Mul(c_dp[i], f.args.dt), f.th))

(***************************************************************************)
(* The seventh stage and the written state.                                *)
(***************************************************************************)
\* Values put in the place of the seventh stage's derivatives.
FiniteSeventh == {VZero, Z(Num(16200)), Z(Num(-90))}
AnySeventh    == FiniteSeventh \cup {VNaN, Vec(PInf, Zero, Zero)}

\* The step of frame f has passed its final loop.
PastFinalLoop(f) == f.pc \in {"writeback", "done"} /\ f.i = 7

\* The state the final loop of frame f writes when the seventh stage's
\* derivatives are gx and gv.
WrittenWithSeventh(f, gx, gv) ==
    Combine(0, f.pos0, f.vel0,
            [f.kx EXCEPT ![6] = gx], [f.kv EXCEPT ![6] = gv], f.args.dt)

\* The last row of a_dp is b_dp and the last weight is zero.
LastRowIsWeights ==
    /\ b_dp[6] = Zero
    /\ \A j \in 0 .. 5 : a_dp[6][j] = b_dp[j]

\* The state written by frame f is the one the final loop writes with each
\* of the values of S in the place of kx[6] and kv[6].
WrittenWhateverSeventh(f, S) ==
    \A gx \in S, gv \in S :
        LET out == WrittenWithSeventh(f, gx, gv)
        IN  f.pos = out.pos /\ f.vel = out.vel

\* C27 as stated: the position and velocity written by DormandPrinceStep do
\* not depend on kx[6] and kv[6]: b_dp[6] = 0 and a_dp[6][j] = b_dp[j], and
\* with any value, NaN and infinity included, in the place of the seventh
\* stage's derivatives the step writes the same state.
C27_SeventhStageIrrelevant ==
    /\ LastRowIsWeights
    /\ \A t \in Threads :
          (InIntegrator(t) /\ PastFinalLoop(frame[t]))
              => WrittenWhateverSeventh(frame[t], AnySeventh)

\* C27: b_dp[6] = 0 and a_dp[6][j] = b_dp[j] for j in 0..5, and with any
\* finite value in the place of kx[6] and kv[6] DormandPrinceStep writes the
\* same position and velocity.
C27_FiniteSeventhStageIrrelevant ==
    /\ LastRowIsWeights
    /\ \A t \in Threads :
          (InIntegrator(t) /\ PastFinalLoop(frame[t]))
              => WrittenWhateverSeventh(frame[t], FiniteSeventh)

\* A step under thrust has written a finite state, and its seventh stage's
\* derivatives are none of the values put in their place.
C27_Witness ==
    \E t \in Threads :
        LET f == frame[t]
        IN  /\ InIntegrator(t) /\ PastFinalLoop(f)
            /\ f.th # VZero
            /\ VFinite(f.pos) /\ VFinite(f.vel)
            /\ f.pos # f.pos0
            /\ f.kx[6] \notin AnySeventh /\ f.kv[6] \notin AnySeventh

(***************************************************************************)
(* The RK4 variant (rk4Physics.cpp).  Its numbers are floats; the inputs   *)
(* below are such that every operation of a step is exact in float: small  *)
(* dyadic positions, velocities and accelerations, time steps whose sixth  *)
(* and half are dyadic, attractors without mass.  The masses 1e-6, 5e-6,   *)
(* 1e-5 and 2e-5 stand for the floats nearest to them, which compare with  *)
(* the float thresholds 1e-6f and 0.00001f as the decimals do.             *)
(***************************************************************************)
RK4_G         == Dec(667430, -28)
RK4_minDistSq == Dec(1, -4)
RK4_maxForce  == Dec(1, 8)

\* The loop of the float ComputeAcceleration from index i on.
RECURSIVE RK4AccelerationFrom(_, _, _, _, _, _)
RK4AccelerationFrom(i, acceleration, pos, bodies, masses, numBodies) ==
    IF i >= numBodies THEN acceleration
    ELSE LET dir    == VSub(bodies[i], pos)
             distSq == NormSq(dir)
         IN  IF Less(distSq, RK4_minDistSq)
             THEN RK4AccelerationFrom(i + 1, acceleration, pos, bodies, masses,
                                      numBodies)
             ELSE LET force == StdMin(Div(Mul(RK4_G, masses[i]), distSq),
                                      RK4_maxForce)
                      dist  == Sqrt(distSq)
                  IN  RK4AccelerationFrom(
                          i + 1, VAdd(acceleration, VScale(Div(force, dist), dir)),
                          pos, bodies, masses, numBodies)

\* ComputeAcceleration of rk4Physics.cpp.
RK4ComputeAcceleration(pos, bodies, masses, numBodies) ==
    RK4AccelerationFrom(0, VZero, pos, bodies, masses, numBodies)

\* The guard of RungeKuttaStep with the threshold of RungeKuttaSingle.
RungeKuttaStepGuardAsSingle(mass) == LessEq(mass, Dec(1, -6))

\* if (mass <= 0.00001f) return, in RungeKuttaStep.
RungeKuttaStepGuard(mass) == LessEq(mass, Dec(1, -5))

\* if (mass <= 1e-6f) return, in RungeKuttaSingle.
RungeKuttaSingleGuard(mass) == LessEq(mass, Dec(1, -6))

\* The state at which stage i (0 for k1 ... 3 for k4) is evaluated.
RungeKuttaStageState(i, pos, vel, kx, kv, dt) ==
    IF i = 0 THEN [pi |-> pos, vi |-> vel]
    ELSE LET h == IF i = 3 THEN dt ELSE Mul(Dec(5, -1), dt)
         IN  [pi |-> VAdd(pos, VScale(h, kx[i - 1])),
              vi |-> VAdd(vel, VScale(h, kv[i - 1]))]

\* y += (dt / 6.0f) * (k1 + 2.0f * k2 + 2.0f * k3 + k4)
RungeKuttaCombine(y, dt, k) ==
    VAdd(y, VScale(Div(dt, Num(6)),
                   VAdd(VAdd(VAdd(k[0], VScale(Num(2), k[1])),
                             VScale(Num(2), k[2])),
                        k[3])))

\* The masses of the calls: at and between the two thresholds, and above.
RungeKuttaMasses == {Dec(1, -6), Dec(5, -6), Dec(1, -5), Dec(2, -5), One, Num(2)}

\* The calls of RungeKuttaSingle.  A thrust on a mass that is stepped is on
\* mass 1 or 2.
RungeKuttaArgs ==
    {a \in {[mass |-> m, bodies |-> w.bodies, masses |-> w.masses,
             numBodies |-> w.numBodies, dt |-> Num(dt),
             thrustImpulse |-> Z(Num(th))] :
                m \in RungeKuttaMasses, w \in Worlds \cup {NoWorld},
                dt \in {3, 6}, th \in {0, 2}} :
        \/ a.thrustImpulse = VZero
        \/ RungeKuttaStepGuard(a.mass)
        \/ a.mass \in {One, Num(2)}}

\* The host calls RungeKuttaSingle on the body of thread t.
HostCallsRungeKutta(t) ==
    /\ frame[t].pc = "idle"
    /\ steps < MaxSteps
    /\ \E a \in RungeKuttaArgs :
          frame' = [frame EXCEPT ![t] =
                       [IdleFrame EXCEPT !.fn = "RungeKuttaSingle", !.pc = "single",
                                         !.args = a, !.pos0 = position[t],
                                         !.vel0 = velocity[t]]]
    /\ steps' = steps + 1
    /\ UNCHANGED <<JR_H, position, velocity>>

\* RungeKuttaSingle: its guard, then the call of RungeKuttaStep.
RungeKuttaSingleEntry(t) ==
    LET f == frame[t]
    IN  /\ f.fn = "RungeKuttaSingle" /\ f.pc = "single"
        /\ frame' = [frame EXCEPT ![t] =
               IF RungeKuttaSingleGuard(f.args.mass) THEN [f EXCEPT !.pc = "done"]
               ELSE [f EXCEPT !.pc = "step"]]
        /\ UNCHANGED <<JR_H, position, velocity, steps>>

\* RungeKuttaStep: its guard, then thrustAcc.
RungeKuttaStepEntry(t) ==
    LET f == frame[t]
        a == f.args
    IN  /\ f.fn = "RungeKuttaSingle" /\ f.pc = "step"
        /\ frame' = [frame EXCEPT ![t] =
               IF RungeKuttaStepGuard(a.mass) THEN [f EXCEPT !.pc = "done"]
               ELSE [f EXCEPT !.th = Vec(Div(a.thrustImpulse[1], a.mass),
                                         Div(a.thrustImpulse[2], a.mass),
                                         Div(a.thrustImpulse[3], a.mass)),
                              !.pc = "stage", !.i = 0]]
        /\ UNCHANGED <<JR_H, position, velocity, steps>>

\* One of the four evaluations k1 ... k4 of RungeKuttaStep, pos and vel
\* referring to the body of thread t.
RungeKuttaStage(t) ==
    LET f == frame[t]
        a == f.args
        s == RungeKuttaStageState(f.i, position[t], velocity[t], f.kx, f.kv, a.dt)
        k == VAdd(RK4ComputeAcceleration(s.pi, a.bodies, a.masses, a.numBodies),
                  f.th)
    IN  /\ f.fn = "RungeKuttaSingle" /\ f.pc = "stage"
        /\ frame' = [frame EXCEPT ![t] =
               [f EXCEPT !.kx = f.kx @@ (f.i :> s.vi),
                         !.kv = f.kv @@ (f.i :> k),
                         !.i  = f.i + 1,
                         !.pc = IF f.i + 1 < 4 THEN "stage" ELSE "final"]]
        /\ UNCHANGED <<JR_H, position, velocity, steps>>

\* The update of vel and then of pos that ends RungeKuttaStep.
RungeKuttaUpdate(t) ==
    LET f == frame[t]
    IN  /\ f.fn = "RungeKuttaSingle" /\ f.pc = "final"
        /\ velocity' = [velocity EXCEPT ![t] =
                           RungeKuttaCombine(velocity[t], f.args.dt, f.kv)]
        /\ position' = [position EXCEPT ![t] =
                           RungeKuttaCombine(position[t], f.args.dt, f.kx)]
        /\ frame' = [frame EXCEPT ![t] = [f EXCEPT !.pc = "done"]]
        /\ UNCHANGED <<JR_H, steps>>

NextRK4 ==
    \/ HostCallsRungeKutta("main")
    \/ RungeKuttaSingleEntry("main")
    \/ RungeKuttaStepEntry("main")
    \/ RungeKuttaStage("main")
    \/ RungeKuttaUpdate("main")
    \/ Return("main")

SpecRK4 == Init /\ [][NextRK4]_vars

\* The derivative of the velocity at position p in the call of frame f:
\* gravity and thrust.
RK4DerivativeAt(f, p) ==
    VAdd(RK4ComputeAcceleration(p, f.args.bodies, f.args.masses, f.args.numBodies),
         VScale(Div(One, f.args.mass), f.args.thrustImpulse))

\* The four stages of frame f are those of the classical fourth-order
\* Runge-Kutta method of step h = dt for x' = v, v' = A(x), from the state
\* the call began with: k1 at the start, k2 and k3 at h / 2 along k1 and k2,
\* k4 at h along k3.
ClassicalStages(f) ==
    LET h    == f.args.dt
        half == Div(h, Num(2))
        x    == f.pos0
        v    == f.vel0
    IN  /\ f.i = 4 /\ DOMAIN f.kx = 0 .. 3 /\ DOMAIN f.kv = 0 .. 3
        /\ f.kx[0] = v
        /\ f.kv[0] = RK4DerivativeAt(f, x)
        /\ f.kx[1] = VAdd(v, VScale(half, f.kv[0]))
        /\ f.kv[1] = RK4DerivativeAt(f, VAdd(x, VScale(half, f.kx[0])))
        /\ f.kx[2] = VAdd(v, VScale(half, f.kv[1]))
        /\ f.kv[2] = RK4DerivativeAt(f, VAdd(x, VScale(half, f.kx[1])))
        /\ f.kx[3] = VAdd(v, VScale(h, f.kv[2]))
        /\ f.kv[3] = RK4DerivativeAt(f, VAdd(x, VScale(h, f.kx[2])))

\* y + h * (k1 + 2 k2 + 2 k3 + k4) / 6
ClassicalUpdate(y, h, k) ==
    VAdd(y, VScale(h, VScale(Rat(1, 6),
                             VAdd(VAdd(k[0], k[3]),
                                  VScale(Num(2), VAdd(k[1], k[2]))))))

\* The body of thread t has the state of one classical step from the state
\* it had when its call began.
SteppedOnceRK4(t) ==
    LET f == frame[t]
    IN  /\ ClassicalStages(f)
        /\ position[t] = ClassicalUpdate(f.pos0, f.args.dt, f.kx)
        /\ velocity[t] = ClassicalUpdate(f.vel0, f.args.dt, f.kv)

\* C28: RungeKuttaSingle leaves position and velocity unchanged for every mass
\* at or below 1e-5, the threshold of the guard of RungeKuttaStep, and not
\* only for mass at or below 1e-6; for every mass above 1e-5 the body is
\* unchanged until the end of the call and then has the state of exactly one
\* classical RK4 step, in position and in velocity.
C28_RK4NoOpUpToInnerThreshold ==
    \A t \in Threads :
        frame[t].fn = "RungeKuttaSingle"
            => IF LessEq(frame[t].args.mass, Dec(1, -5)) \/ frame[t].pc # "done"
               THEN Untouched(t)
               ELSE SteppedOnceRK4(t)

\* A call for a moving body of mass between the two thresholds has ended
\* with the body where it was.
C28_Witness ==
    \E t \in Threads :
        /\ Finished(t, "RungeKuttaSingle")
        /\ Less(Dec(1, -6), frame[t].args.mass)
        /\ LessEq(frame[t].args.mass, Dec(1, -5))
        /\ frame[t].vel0 # VZero
        /\ frame[t].args.thrustImpulse # VZero
        /\ Untouched(t)

====
